---- MODULE Spec2Model ----
(***************************************************************************)
(* Model of the backend message codec of gopsql (package backend, the      *)
(* revision with Read / parseMessage / writeMessage).  A byte is a number  *)
(* in 0..255, a Go string or byte slice is a sequence of bytes, and a Go   *)
(* slice is a record [isnil, elems] so that a nil slice and an empty       *)
(* non-nil slice stay distinct, as reflect.DeepEqual keeps them.           *)
(***************************************************************************)
EXTENDS Integers, Sequences, FiniteSets, TLC

(***************************************************************************)
(* Bounds of the model.                                                    *)
(***************************************************************************)
MaxStr == 2
MaxBlob == 2
MaxCols == 2
MaxPayload == 6
MaxTail == 4
MaxPrim == 5
MaxFrame == 5
MaxWrite == 2

(***************************************************************************)
(* Errors (package variables and io errors) and the Go runtime panic.      *)
(***************************************************************************)
NoErr == "nil"
ErrValueUnderflow == "partial value"
ErrValueOverflow == "value too large"
ErrInvalidValue == "invalid value"
ErrUnexpectedEOF == "unexpected EOF"
Panic == "panic"

(***************************************************************************)
(* Message kind tags and authentication sub-kinds.                         *)
(***************************************************************************)
msgKindAuthentication == 82
msgKindKeyData == 75
msgKindBindComplete == 50
msgKindCloseComplete == 51
msgKindCommandComplete == 67
msgKindCopyData == 100
msgKindCopyDone == 99
msgKindCopyInResponse == 71
msgKindCopyOutResponse == 72
msgKindCopyBothResponse == 87
msgKindDataRow == 68
msgKindEmptyQueryResponse == 73
msgKindErrorResponse == 69
msgKindFunctionCallResponse == 86
msgKindNegotiateProtocolVersion == 118
msgKindNoData == 110
msgKindNoticeResponse == 78
msgKindNotificationResponse == 65
msgKindParameterDescription == 116
msgKindParameterStatus == 83
msgKindParseComplete == 49
msgKindPortalSuspended == 115
msgKindReadyForQuery == 90
msgKindRowDescription == 84

authKindOk == 0
authKindKerberosV5 == 2
authKindCleartextPassword == 3
authKindMD5Password == 5
authKindGSS == 7
authKindGSSContinue == 8
authKindSSPI == 9
authKindSASL == 10
authKindSASLContinue == 11
authKindSASLFinal == 12

\* FieldSeverity ... FieldRoutine: S V C M D H P p q W s t c d n F L R.
FieldTags == {83, 86, 67, 77, 68, 72, 80, 112, 113, 87, 115, 116, 99, 100, 110, 70, 76, 82}

MaxSecretKey == 256
MinSecretKey == 4

(***************************************************************************)
(* Go slices: nil, make([]T, n) and append.                                *)
(***************************************************************************)
NilSlice == [isnil |-> TRUE, elems |-> <<>>]

MakeSlice(s) == [isnil |-> FALSE, elems |-> s]

AppendSlice(x, e) == [isnil |-> FALSE, elems |-> Append(x.elems, e)]

SliceLen(x) == Len(x.elems)

Take(b, n) == SubSeq(b, 1, n)

Drop(b, n) == SubSeq(b, n + 1, Len(b))

(***************************************************************************)
(* Fixed-width integers.  uint16/uint32 big-endian conversions and the     *)
(* int8/int16/int32 reinterpretations, kept inside the 32 bit range.       *)
(***************************************************************************)
ToInt8(v) == IF v >= 128 THEN v - 256 ELSE v

ToByte(i) == i % 256

BigEndianInt16(b) == IF b[1] >= 128 THEN (b[1] - 256) * 256 + b[2] ELSE b[1] * 256 + b[2]

BigEndianInt32(b) ==
    (IF b[1] >= 128 THEN b[1] - 256 ELSE b[1]) * 16777216 + b[2] * 65536 + b[3] * 256 + b[4]

PutInt16(i) == << (i \div 256) % 256, i % 256 >>

PutInt32(i) ==
    << (i \div 16777216) % 256, (i \div 65536) % 256, (i \div 256) % 256, i % 256 >>

\* int32 subtraction a - b for 0 <= b, wrapping around at -2^31.
Sub32(a, b) ==
    IF a < (-2147483647 - 1) + b THEN (a + 2147483647) + ((2147483647 - b) + 2) ELSE a - b

(***************************************************************************)
(* Primitive reads: each returns the bytes consumed, the error and the     *)
(* value left in the output parameter (out0 is its value before the call). *)
(***************************************************************************)
readByte(b, out0) ==
    IF Len(b) < 1
    THEN [n |-> 0, err |-> ErrValueUnderflow, out |-> out0]
    ELSE [n |-> 1, err |-> NoErr, out |-> b[1]]
\* readInt8 without the conversion to a signed value.
readInt8Unsigned(b, out0) ==
    LET r == readByte(b, 0)
    IN  IF r.err # NoErr
        THEN [n |-> r.n, err |-> r.err, out |-> out0]
        ELSE [n |-> r.n, err |-> NoErr, out |-> r.out]

readInt8(b, out0) ==
    LET r == readByte(b, 0)
    IN  IF r.err # NoErr
        THEN [n |-> r.n, err |-> r.err, out |-> out0]
        ELSE [n |-> r.n, err |-> NoErr, out |-> ToInt8(r.out)]

readInt16(b, out0) ==
    IF Len(b) < 2
    THEN [n |-> 0, err |-> ErrValueUnderflow, out |-> out0]
    ELSE [n |-> 2, err |-> NoErr, out |-> BigEndianInt16(Take(b, 2))]

readInt32(b, out0) ==
    IF Len(b) < 4
    THEN [n |-> 0, err |-> ErrValueUnderflow, out |-> out0]
    ELSE [n |-> 4, err |-> NoErr, out |-> BigEndianInt32(Take(b, 4))]

\* bytes.IndexByte(b, c), 0-based, -1 when c is absent.
IndexByte(b, c) ==
    IF \E i \in 1..Len(b) : b[i] = c
    THEN (CHOOSE i \in 1..Len(b) : b[i] = c /\ \A j \in 1..(i - 1) : b[j] # c) - 1
    ELSE -1
\* readString that keeps the terminator in the string it returns.
readStringKeepsTerminator(b, out0) ==
    LET ndx == IndexByte(b, 0)
    IN  IF ndx > -1
        THEN [n |-> ndx + 1, err |-> NoErr, out |-> Take(b, ndx + 1)]
        ELSE [n |-> 0, err |-> ErrValueUnderflow, out |-> out0]

readString(b, out0) ==
    LET ndx == IndexByte(b, 0)
    IN  IF ndx > -1
        THEN [n |-> ndx + 1, err |-> NoErr, out |-> Take(b, ndx)]
        ELSE [n |-> 0, err |-> ErrValueUnderflow, out |-> out0]

\* The primitive read named fn.
CallPrim(fn, b, out0) ==
    CASE fn = "readByte" -> readByte(b, out0)
      [] fn = "readInt8" -> readInt8(b, out0)
      [] fn = "readInt16" -> readInt16(b, out0)
      [] fn = "readInt32" -> readInt32(b, out0)
      [] fn = "readString" -> readString(b, out0)

(***************************************************************************)
(* Primitive writes into a bytes.Buffer (which never fails): the bytes     *)
(* appended.                                                               *)
(***************************************************************************)
writeByte(b) == << b >>

writeBytes(b) == b

writeInt8(i) == writeByte(ToByte(i))

writeInt16(i) == PutInt16(i)

writeInt32(i) == PutInt32(i)

writeString(s) == Append(s, 0)
\* writeMessage with a length field that leaves out its own four bytes.
writeMessagePayloadLength(kind, b) == writeByte(kind) \o writeInt32(Len(b)) \o writeBytes(b)

\* The three writes of writeMessage to a stream that accepts them.
writeMessage(kind, b) == writeByte(kind) \o writeInt32(Len(b) + 4) \o writeBytes(b)

(***************************************************************************)
(* Decoded messages.  A message is a record whose type field names the Go  *)
(* struct; NoMsg is the nil interface value returned next to an error.     *)
(* A Decode result is [err, msg]; the struct a failed Decode leaves behind *)
(* is dropped by parseMessage, so a failed result carries NoMsg.           *)
(***************************************************************************)
NoMsg == [type |-> "nil"]

\* return dec, err: the value under construction handed back with the error.
FailKeepsValue(e) == [err |-> e, msg |-> [type |-> "partial"]]

Fail(e) == [err |-> e, msg |-> NoMsg]

Done(m) == [err |-> NoErr, msg |-> m]

AuthenticationOkDecode(b) == Done([type |-> "AuthenticationOk"])

AuthenticationKerberosV5Decode(b) == Done([type |-> "AuthenticationKerberosV5"])

AuthenticationCleartextPasswordDecode(b) == Done([type |-> "AuthenticationCleartextPassword"])

\* copy(x.Salt[:], b) copies min(4, len(b)) bytes into the zeroed array.
AuthenticationMD5PasswordDecode(b) ==
    Done([type |-> "AuthenticationMD5Password",
          Salt |-> [i \in 1..4 |-> IF i <= Len(b) THEN b[i] ELSE 0]])

AuthenticationGSSDecode(b) == Done([type |-> "AuthenticationGSS"])

AuthenticationGSSContinueDecode(b) ==
    Done([type |-> "AuthenticationGSSContinue", Data |-> MakeSlice(b)])

AuthenticationSSPIDecode(b) == Done([type |-> "AuthenticationSSPI"])

RECURSIVE SASLMechanisms(_, _)
SASLMechanisms(b, acc) ==
    IF Len(b) > 1
    THEN LET r == readString(b, <<>>)
         IN  IF r.err # NoErr
             THEN [err |-> r.err, list |-> acc]
             ELSE SASLMechanisms(Drop(b, r.n), AppendSlice(acc, r.out))
    ELSE [err |-> NoErr, list |-> acc]

AuthenticationSASLDecode(b) ==
    LET r == SASLMechanisms(b, NilSlice)
    IN  IF r.err # NoErr
        THEN Fail(r.err)
        ELSE Done([type |-> "AuthenticationSASL", Mechanisms |-> r.list])

AuthenticationSASLContinueDecode(b) ==
    Done([type |-> "AuthenticationSASLContinue", Data |-> MakeSlice(b)])

AuthenticationSASLFinalDecode(b) ==
    Done([type |-> "AuthenticationSASLFinal", Data |-> MakeSlice(b)])

\* The secret key taken whatever its length.
BackendKeyDataDecodeUnbounded(b) ==
    LET r == readInt32(b, 0)
    IN  IF r.err # NoErr THEN Fail(r.err)
        ELSE Done([type |-> "BackendKeyData", ProcessID |-> r.out,
                   SecretKey |-> MakeSlice(Drop(b, r.n))])

BackendKeyDataDecode(b) ==
    LET r == readInt32(b, 0)
        k == Drop(b, r.n)
    IN  IF r.err # NoErr THEN Fail(r.err)
        ELSE IF Len(k) < MinSecretKey THEN Fail(ErrValueUnderflow)
        ELSE IF Len(k) > MaxSecretKey THEN Fail(ErrValueOverflow)
        ELSE Done([type |-> "BackendKeyData", ProcessID |-> r.out, SecretKey |-> MakeSlice(k)])

BindCompleteDecode(b) == Done([type |-> "BindComplete"])

CloseCompleteDecode(b) == Done([type |-> "CloseComplete"])

CommandCompleteDecode(b) ==
    LET r == readString(b, <<>>)
    IN  IF r.err # NoErr THEN Fail(r.err)
        ELSE Done([type |-> "CommandComplete", Tag |-> r.out])

CopyDataDecode(b) == Done([type |-> "CopyData", Data |-> MakeSlice(b)])

CopyDoneDecode(b) == Done([type |-> "CopyDone"])

\* n successive readInt16 calls; [err, list, rest].
RECURSIVE ReadInt16s(_, _, _)
ReadInt16s(b, n, acc) ==
    IF n <= 0 THEN [err |-> NoErr, list |-> acc, rest |-> b]
    ELSE LET r == readInt16(b, 0)
         IN  IF r.err # NoErr
             THEN [err |-> r.err, list |-> acc, rest |-> b]
             ELSE ReadInt16s(Drop(b, r.n), n - 1, Append(acc, r.out))

\* The body shared, line for line, by the three Copy*Response decoders.
CopyResponseDecode(type, b) ==
    LET f == readInt8(b, 0)
        b1 == Drop(b, f.n)
        c == readInt16(b1, 0)
        b2 == Drop(b1, c.n)
    IN  IF f.err # NoErr THEN Fail(f.err)
        ELSE IF c.err # NoErr THEN Fail(c.err)
        ELSE IF Len(b2) < c.out * 2 THEN Fail(ErrValueUnderflow)
        ELSE IF c.out < 0 THEN Fail(Panic)
        ELSE LET l == ReadInt16s(b2, c.out, <<>>)
             IN  IF l.err # NoErr THEN Fail(l.err)
                 ELSE Done([type |-> type, Format |-> f.out, Columns |-> MakeSlice(l.list)])

CopyInResponseDecode(b) == CopyResponseDecode("CopyInResponse", b)

CopyOutResponseDecode(b) == CopyResponseDecode("CopyOutResponse", b)

CopyBothResponseDecode(b) == CopyResponseDecode("CopyBothResponse", b)

\* A length of zero taken for the null marker.
DataRowColumnZeroIsNil(length, d) ==
    IF length <= 0 THEN NilSlice ELSE MakeSlice(Take(d, length))

\* The value one iteration of DataRow.Decode stores for a column of the
\* given length whose data starts at d.
DataRowColumn(length, d) ==
    IF length = -1 THEN NilSlice ELSE MakeSlice(Take(d, length))

\* The column loop of DataRow.Decode: make([]byte, length) panics on a
\* negative length and b[:length] panics beyond the end of b.
RECURSIVE DataRowColumns(_, _, _)
DataRowColumns(b, n, acc) ==
    IF n <= 0 THEN [err |-> NoErr, list |-> acc]
    ELSE LET r == readInt32(b, 0)
             d == Drop(b, r.n)
         IN  IF r.err # NoErr THEN [err |-> r.err, list |-> acc]
             ELSE IF r.out = -1 THEN DataRowColumns(d, n - 1, Append(acc, DataRowColumn(r.out, d)))
             ELSE IF r.out < 0 \/ r.out > Len(d) THEN [err |-> Panic, list |-> acc]
             ELSE DataRowColumns(Drop(d, r.out), n - 1, Append(acc, DataRowColumn(r.out, d)))

DataRowDecode(b) ==
    LET c == readInt16(b, 0)
    IN  IF c.err # NoErr THEN Fail(c.err)
        ELSE IF c.out < 0 THEN Fail(Panic)
        ELSE LET l == DataRowColumns(Drop(b, c.n), c.out, <<>>)
             IN  IF l.err # NoErr THEN Fail(l.err)
                 ELSE Done([type |-> "DataRow", Columns |-> MakeSlice(l.list)])

EmptyQueryResponseDecode(b) == Done([type |-> "EmptyQueryResponse"])

\* The loop of ErrorResponse.Decode and NoticeResponse.Decode, entered
\* with the field byte just read.
RECURSIVE FieldLoop(_, _, _, _)
FieldLoop(b, field, fields, values) ==
    IF field = 0 THEN [err |-> NoErr, fields |-> fields, values |-> values]
    ELSE LET s == readString(b, <<>>)
             b1 == Drop(b, s.n)
             f == readByte(b1, field)
         IN  IF s.err # NoErr THEN [err |-> s.err, fields |-> fields, values |-> values]
             ELSE IF f.err # NoErr THEN [err |-> f.err, fields |-> fields, values |-> values]
             ELSE FieldLoop(Drop(b1, f.n), f.out, AppendSlice(fields, field),
                            AppendSlice(values, s.out))

FieldsDecode(type, b) ==
    LET f == readByte(b, 0)
    IN  IF f.err # NoErr THEN Fail(f.err)
        ELSE LET l == FieldLoop(Drop(b, f.n), f.out, NilSlice, NilSlice)
             IN  IF l.err # NoErr THEN Fail(l.err)
                 ELSE Done([type |-> type, Fields |-> l.fields, Values |-> l.values])

ErrorResponseDecode(b) == FieldsDecode("ErrorResponse", b)

FunctionCallResponseDecode(b) ==
    LET r == readInt32(b, 0)
        d == Drop(b, r.n)
    IN  IF r.err # NoErr THEN Fail(r.err)
        ELSE IF r.out < 0 THEN Done([type |-> "FunctionCallResponse", Result |-> NilSlice])
        ELSE IF r.out > Len(d) THEN Fail(Panic)
        ELSE Done([type |-> "FunctionCallResponse", Result |-> MakeSlice(Take(d, r.out))])

\* The option loop of NegotiateProtocolVersion.Decode: a failed readString
\* returns nil, leaving the slots not yet filled as empty strings.
RECURSIVE ProtocolOptions(_, _, _)
ProtocolOptions(b, n, acc) ==
    IF n <= 0 THEN acc
    ELSE LET r == readString(b, <<>>)
         IN  IF r.err # NoErr
             THEN acc \o [j \in 1..n |-> <<>>]
             ELSE ProtocolOptions(Drop(b, r.n), n - 1, Append(acc, r.out))

NegotiateProtocolVersionDecode(b) ==
    LET v == readInt32(b, 0)
        b1 == Drop(b, v.n)
        c == readInt32(b1, 0)
        b2 == Drop(b1, c.n)
    IN  IF v.err # NoErr THEN Fail(v.err)
        ELSE IF c.err # NoErr THEN Fail(c.err)
        ELSE IF c.out < 0 THEN Fail(Panic)
        ELSE Done([type |-> "NegotiateProtocolVersion", MinorVersionSupported |-> v.out,
                   UnrecognizedOptions |-> MakeSlice(ProtocolOptions(b2, c.out, <<>>))])

NoDataDecode(b) == Done([type |-> "NoData"])

NoticeResponseDecode(b) == FieldsDecode("NoticeResponse", b)

NotificationResponseDecode(b) ==
    LET p == readInt32(b, 0)
        b1 == Drop(b, p.n)
        c == readString(b1, <<>>)
        b2 == Drop(b1, c.n)
        l == readString(b2, <<>>)
    IN  IF p.err # NoErr THEN Fail(p.err)
        ELSE IF c.err # NoErr THEN Fail(c.err)
        ELSE IF l.err # NoErr THEN Fail(l.err)
        ELSE Done([type |-> "NotificationResponse", ProcessID |-> p.out,
                   Channel |-> c.out, Payload |-> l.out])

\* n successive readInt32 calls; [err, list].
\* The loop ends without an error when the bytes run out.
RECURSIVE ReadInt32sStopsShort(_, _, _)
ReadInt32sStopsShort(b, n, acc) ==
    IF n <= 0 \/ Len(b) < 4 THEN [err |-> NoErr, list |-> acc]
    ELSE ReadInt32sStopsShort(Drop(b, 4), n - 1, Append(acc, BigEndianInt32(b)))

RECURSIVE ReadInt32s(_, _, _)
ReadInt32s(b, n, acc) ==
    IF n <= 0 THEN [err |-> NoErr, list |-> acc]
    ELSE LET r == readInt32(b, 0)
         IN  IF r.err # NoErr
             THEN [err |-> r.err, list |-> acc]
             ELSE ReadInt32s(Drop(b, r.n), n - 1, Append(acc, r.out))

ParameterDescriptionDecode(b) ==
    LET c == readInt16(b, 0)
    IN  IF c.err # NoErr THEN Fail(c.err)
        ELSE IF c.out < 0 THEN Fail(Panic)
        ELSE LET l == ReadInt32s(Drop(b, c.n), c.out, <<>>)
             IN  IF l.err # NoErr THEN Fail(l.err)
                 ELSE Done([type |-> "ParameterDescription", Parameters |-> MakeSlice(l.list)])

ParameterStatusDecode(b) ==
    LET n == readString(b, <<>>)
        b1 == Drop(b, n.n)
        v == readString(b1, <<>>)
    IN  IF n.err # NoErr THEN Fail(n.err)
        ELSE IF v.err # NoErr THEN Fail(v.err)
        ELSE Done([type |-> "ParameterStatus", Name |-> n.out, Value |-> v.out])

ParseCompleteDecode(b) == Done([type |-> "ParseComplete"])

PortalSuspendedDecode(b) == Done([type |-> "PortalSuspended"])

ReadyForQueryDecode(b) ==
    LET r == readByte(b, 0)
    IN  IF r.err # NoErr THEN Fail(r.err)
        ELSE Done([type |-> "ReadyForQuery", TxStatus |-> r.out])

\* The reads of one RowDescription field, in the order of the loop body.
RowFieldReads ==
    << "readString", "readInt32", "readInt16", "readInt32", "readInt16", "readInt32",
       "readInt16" >>

\* bread, err := read(b, &out); if err != nil { return err }; b = b[bread:]
\* for each read of fns in turn: the first error, the values read and the
\* bytes left.
RECURSIVE ReadEach(_, _, _)
ReadEach(b, fns, outs) ==
    IF fns = <<>> THEN [err |-> NoErr, outs |-> outs, rest |-> b]
    ELSE LET r == CallPrim(Head(fns), b, IF Head(fns) = "readString" THEN <<>> ELSE 0)
         IN  IF r.err # NoErr THEN [err |-> r.err, outs |-> outs, rest |-> b]
             ELSE ReadEach(Drop(b, r.n), Tail(fns), Append(outs, r.out))

\* The field loop of RowDescription.Decode; a field descriptor is the
\* tuple <<name, table, column, dataType, size, modifier, format>>.
RECURSIVE RowFields(_, _, _)
RowFields(b, n, acc) ==
    IF n <= 0 THEN [err |-> NoErr, list |-> acc]
    ELSE LET f == ReadEach(b, RowFieldReads, <<>>)
         IN  IF f.err # NoErr THEN [err |-> f.err, list |-> acc]
             ELSE RowFields(f.rest, n - 1, Append(acc, f.outs))

RowDescriptionDecode(b) ==
    LET c == readInt16(b, 0)
    IN  IF c.err # NoErr THEN Fail(c.err)
        ELSE IF c.out < 0 THEN Fail(Panic)
        ELSE LET l == RowFields(Drop(b, c.n), c.out, <<>>)
                 col(k) == MakeSlice([i \in 1..Len(l.list) |-> l.list[i][k]])
             IN  IF l.err # NoErr THEN Fail(l.err)
                 ELSE Done([type |-> "RowDescription", Names |-> col(1), Tables |-> col(2),
                            Columns |-> col(3), DataTypes |-> col(4), Sizes |-> col(5),
                            Modifiers |-> col(6), Formats |-> col(7)])

\* An unrecognized tag decoded into the Unknown value.
UnknownDecodeSucceeds(b) == Done([type |-> "Unknown"])

\* An unrecognized tag reported as a short payload.
UnknownDecodeUnderflow(b) == Fail(ErrValueUnderflow)

UnknownDecode(b) == Fail(ErrInvalidValue)

(***************************************************************************)
(* The dispatchers.                                                        *)
(***************************************************************************)
\* Only the Ok sub-kind is told apart.
parseAuthenticationOnlyOk(kind, data) ==
    IF kind = authKindOk THEN AuthenticationOkDecode(data) ELSE UnknownDecode(data)

parseAuthentication(kind, data) ==
    CASE kind = authKindOk -> AuthenticationOkDecode(data)
      [] kind = authKindKerberosV5 -> AuthenticationKerberosV5Decode(data)
      [] kind = authKindCleartextPassword -> AuthenticationCleartextPasswordDecode(data)
      [] kind = authKindMD5Password -> AuthenticationMD5PasswordDecode(data)
      [] kind = authKindGSS -> AuthenticationGSSDecode(data)
      [] kind = authKindGSSContinue -> AuthenticationGSSContinueDecode(data)
      [] kind = authKindSSPI -> AuthenticationSSPIDecode(data)
      [] kind = authKindSASL -> AuthenticationSASLDecode(data)
      [] kind = authKindSASLContinue -> AuthenticationSASLContinueDecode(data)
      [] kind = authKindSASLFinal -> AuthenticationSASLFinalDecode(data)
      [] OTHER -> UnknownDecode(data)

parseMessage(kind, data) ==
    CASE kind = msgKindAuthentication ->
            LET k == readInt32(data, 0)
            IN  IF k.err # NoErr THEN Fail(k.err)
                ELSE parseAuthentication(k.out, Drop(data, k.n))
      [] kind = msgKindKeyData -> BackendKeyDataDecode(data)
      [] kind = msgKindBindComplete -> BindCompleteDecode(data)
      [] kind = msgKindCloseComplete -> CloseCompleteDecode(data)
      [] kind = msgKindCommandComplete -> CommandCompleteDecode(data)
      [] kind = msgKindCopyData -> CopyDataDecode(data)
      [] kind = msgKindCopyDone -> CopyDoneDecode(data)
      [] kind = msgKindCopyInResponse -> CopyInResponseDecode(data)
      [] kind = msgKindCopyOutResponse -> CopyOutResponseDecode(data)
      [] kind = msgKindCopyBothResponse -> CopyBothResponseDecode(data)
      [] kind = msgKindDataRow -> DataRowDecode(data)
      [] kind = msgKindEmptyQueryResponse -> EmptyQueryResponseDecode(data)
      [] kind = msgKindErrorResponse -> ErrorResponseDecode(data)
      [] kind = msgKindFunctionCallResponse -> FunctionCallResponseDecode(data)
      [] kind = msgKindNegotiateProtocolVersion -> NegotiateProtocolVersionDecode(data)
      [] kind = msgKindNoData -> NoDataDecode(data)
      [] kind = msgKindNoticeResponse -> NoticeResponseDecode(data)
      [] kind = msgKindNotificationResponse -> NotificationResponseDecode(data)
      [] kind = msgKindParameterDescription -> ParameterDescriptionDecode(data)
      [] kind = msgKindParameterStatus -> ParameterStatusDecode(data)
      [] kind = msgKindParseComplete -> ParseCompleteDecode(data)
      [] kind = msgKindPortalSuspended -> PortalSuspendedDecode(data)
      [] kind = msgKindReadyForQuery -> ReadyForQueryDecode(data)
      [] kind = msgKindRowDescription -> RowDescriptionDecode(data)
      [] OTHER -> UnknownDecode(data)

(***************************************************************************)
(* Encoders.  Each Encode fills a bytes.Buffer with the payload and hands  *)
(* it to writeMessage with the kind tag of its type.                       *)
(***************************************************************************)
RECURSIVE Concat(_)
Concat(ss) == IF ss = <<>> THEN <<>> ELSE Head(ss) \o Concat(Tail(ss))

\* for ... { writeXxx(&buf, list[i]) }
WriteEach(list, W(_)) == Concat([i \in 1..Len(list) |-> W(list[i])])

AuthenticationOkEncode(x) == writeInt32(authKindOk)

AuthenticationKerberosV5Encode(x) == writeInt32(authKindKerberosV5)

AuthenticationCleartextPasswordEncode(x) == writeInt32(authKindCleartextPassword)

AuthenticationMD5PasswordEncode(x) == writeInt32(authKindMD5Password) \o writeBytes(x.Salt)

AuthenticationGSSEncode(x) == writeInt32(authKindGSS)

AuthenticationGSSContinueEncode(x) == writeInt32(authKindGSSContinue) \o writeBytes(x.Data.elems)

AuthenticationSSPIEncode(x) == writeInt32(authKindSSPI)

AuthenticationSASLEncode(x) ==
    writeInt32(authKindSASL) \o WriteEach(x.Mechanisms.elems, writeString)

AuthenticationSASLContinueEncode(x) ==
    writeInt32(authKindSASLContinue) \o writeBytes(x.Data.elems)

AuthenticationSASLFinalEncode(x) == writeInt32(authKindSASLFinal) \o writeBytes(x.Data.elems)

BackendKeyDataEncode(x) == writeInt32(x.ProcessID) \o writeBytes(x.SecretKey.elems)

CommandCompleteEncode(x) == writeString(x.Tag)

CopyDataEncode(x) == writeBytes(x.Data.elems)

\* The body shared by the three Copy*Response encoders.
CopyResponseEncode(x) ==
    writeInt8(x.Format) \o writeInt16(SliceLen(x.Columns)) \o WriteEach(x.Columns.elems, writeInt16)

CopyInResponseEncode(x) == CopyResponseEncode(x)

CopyOutResponseEncode(x) == CopyResponseEncode(x)

CopyBothResponseEncode(x) == CopyResponseEncode(x)
\* DataRow.Encode without the nil case.
DataRowColumnEncodeNoNil(column) == writeInt32(SliceLen(column)) \o writeBytes(column.elems)

\* One iteration of the column loop of DataRow.Encode.
DataRowColumnEncode(column) ==
    IF column.isnil
    THEN writeInt32(-1)
    ELSE writeInt32(SliceLen(column)) \o writeBytes(column.elems)

DataRowEncode(x) ==
    writeInt16(SliceLen(x.Columns)) \o WriteEach(x.Columns.elems, DataRowColumnEncode)

\* The body shared by ErrorResponse.Encode and NoticeResponse.Encode.
FieldsEncode(x) ==
    Concat([i \in 1..SliceLen(x.Fields) |->
                writeByte(x.Fields.elems[i]) \o writeString(x.Values.elems[i])])
        \o writeByte(0)

ErrorResponseEncode(x) == FieldsEncode(x)

FunctionCallResponseEncode(x) ==
    (IF x.Result.isnil THEN writeInt32(-1) ELSE writeInt32(SliceLen(x.Result)))
        \o writeBytes(x.Result.elems)

NegotiateProtocolVersionEncode(x) ==
    writeInt32(x.MinorVersionSupported) \o writeInt32(SliceLen(x.UnrecognizedOptions))
        \o WriteEach(x.UnrecognizedOptions.elems, writeString)

NoticeResponseEncode(x) == FieldsEncode(x)

NotificationResponseEncode(x) ==
    writeInt32(x.ProcessID) \o writeString(x.Channel) \o writeString(x.Payload)

ParameterDescriptionEncode(x) ==
    writeInt16(SliceLen(x.Parameters)) \o WriteEach(x.Parameters.elems, writeInt32)

ParameterStatusEncode(x) == writeString(x.Name) \o writeString(x.Value)

ReadyForQueryEncode(x) == writeByte(x.TxStatus)

RowDescriptionEncode(x) ==
    writeInt16(SliceLen(x.Names))
        \o Concat([i \in 1..SliceLen(x.Names) |->
                      writeString(x.Names.elems[i]) \o writeInt32(x.Tables.elems[i])
                          \o writeInt16(x.Columns.elems[i]) \o writeInt32(x.DataTypes.elems[i])
                          \o writeInt16(x.Sizes.elems[i]) \o writeInt32(x.Modifiers.elems[i])
                          \o writeInt16(x.Formats.elems[i])])

AuthTypes ==
    { "AuthenticationOk", "AuthenticationKerberosV5", "AuthenticationCleartextPassword",
      "AuthenticationMD5Password", "AuthenticationGSS", "AuthenticationGSSContinue",
      "AuthenticationSSPI", "AuthenticationSASL", "AuthenticationSASLContinue",
      "AuthenticationSASLFinal" }

EmptyTypes ==
    { "BindComplete", "CloseComplete", "CopyDone", "EmptyQueryResponse", "NoData",
      "ParseComplete", "PortalSuspended" }

\* Every Encode passing the Authentication tag.
KindOfAlwaysAuthentication(x) == msgKindAuthentication

\* The kind tag each Encode passes to writeMessage.
KindOf(x) ==
    CASE x.type \in AuthTypes -> msgKindAuthentication
      [] x.type = "BackendKeyData" -> msgKindKeyData
      [] x.type = "BindComplete" -> msgKindBindComplete
      [] x.type = "CloseComplete" -> msgKindCloseComplete
      [] x.type = "CommandComplete" -> msgKindCommandComplete
      [] x.type = "CopyData" -> msgKindCopyData
      [] x.type = "CopyDone" -> msgKindCopyDone
      [] x.type = "CopyInResponse" -> msgKindCopyInResponse
      [] x.type = "CopyOutResponse" -> msgKindCopyOutResponse
      [] x.type = "CopyBothResponse" -> msgKindCopyBothResponse
      [] x.type = "DataRow" -> msgKindDataRow
      [] x.type = "EmptyQueryResponse" -> msgKindEmptyQueryResponse
      [] x.type = "ErrorResponse" -> msgKindErrorResponse
      [] x.type = "FunctionCallResponse" -> msgKindFunctionCallResponse
      [] x.type = "NegotiateProtocolVersion" -> msgKindNegotiateProtocolVersion
      [] x.type = "NoData" -> msgKindNoData
      [] x.type = "NoticeResponse" -> msgKindNoticeResponse
      [] x.type = "NotificationResponse" -> msgKindNotificationResponse
      [] x.type = "ParameterDescription" -> msgKindParameterDescription
      [] x.type = "ParameterStatus" -> msgKindParameterStatus
      [] x.type = "ParseComplete" -> msgKindParseComplete
      [] x.type = "PortalSuspended" -> msgKindPortalSuspended
      [] x.type = "ReadyForQuery" -> msgKindReadyForQuery
      [] x.type = "RowDescription" -> msgKindRowDescription

\* The buffer each Encode hands to writeMessage.
EncodePayload(x) ==
    CASE x.type = "AuthenticationOk" -> AuthenticationOkEncode(x)
      [] x.type = "AuthenticationKerberosV5" -> AuthenticationKerberosV5Encode(x)
      [] x.type = "AuthenticationCleartextPassword" -> AuthenticationCleartextPasswordEncode(x)
      [] x.type = "AuthenticationMD5Password" -> AuthenticationMD5PasswordEncode(x)
      [] x.type = "AuthenticationGSS" -> AuthenticationGSSEncode(x)
      [] x.type = "AuthenticationGSSContinue" -> AuthenticationGSSContinueEncode(x)
      [] x.type = "AuthenticationSSPI" -> AuthenticationSSPIEncode(x)
      [] x.type = "AuthenticationSASL" -> AuthenticationSASLEncode(x)
      [] x.type = "AuthenticationSASLContinue" -> AuthenticationSASLContinueEncode(x)
      [] x.type = "AuthenticationSASLFinal" -> AuthenticationSASLFinalEncode(x)
      [] x.type = "BackendKeyData" -> BackendKeyDataEncode(x)
      [] x.type = "CommandComplete" -> CommandCompleteEncode(x)
      [] x.type = "CopyData" -> CopyDataEncode(x)
      [] x.type = "CopyInResponse" -> CopyInResponseEncode(x)
      [] x.type = "CopyOutResponse" -> CopyOutResponseEncode(x)
      [] x.type = "CopyBothResponse" -> CopyBothResponseEncode(x)
      [] x.type = "DataRow" -> DataRowEncode(x)
      [] x.type = "ErrorResponse" -> ErrorResponseEncode(x)
      [] x.type = "FunctionCallResponse" -> FunctionCallResponseEncode(x)
      [] x.type = "NegotiateProtocolVersion" -> NegotiateProtocolVersionEncode(x)
      [] x.type = "NoticeResponse" -> NoticeResponseEncode(x)
      [] x.type = "NotificationResponse" -> NotificationResponseEncode(x)
      [] x.type = "ParameterDescription" -> ParameterDescriptionEncode(x)
      [] x.type = "ParameterStatus" -> ParameterStatusEncode(x)
      [] x.type = "ReadyForQuery" -> ReadyForQueryEncode(x)
      [] x.type = "RowDescription" -> RowDescriptionEncode(x)
      [] x.type \in EmptyTypes -> <<>>

\* x.Encode(w) on a stream that accepts every write: the error returned,
\* the arguments given to writeMessage and the bytes written.  Unknown
\* returns ErrInvalidValue without touching the stream.
\* An Unknown value written as an envelope with tag 0x00.
UnknownEncodeWritesEnvelope(x) ==
    [err |-> NoErr, kind |-> 0, payload |-> <<>>, bytes |-> writeMessage(0, <<>>)]

\* return ErrInvalidValue: the writer is not touched.
UnknownEncode(x) == [err |-> ErrInvalidValue, kind |-> 0, payload |-> <<>>, bytes |-> <<>>]

Encode(x) ==
    IF x.type = "Unknown"
    THEN UnknownEncode(x)
    ELSE [err |-> NoErr, kind |-> KindOf(x), payload |-> EncodePayload(x),
          bytes |-> writeMessage(KindOf(x), EncodePayload(x))]

(***************************************************************************)
(* Read from a stream that holds the bytes in and then reports EOF         *)
(* (a bytes.Buffer): the result of parseMessage or the framing error, the  *)
(* payload handed to parseMessage, and the bytes left in the stream.       *)
(***************************************************************************)
EOF == "EOF"

\* A full read that leaves the last byte it was asked for in the stream.
ReadFullLeavesLastByte(in, want) ==
    IF Len(in) >= want THEN [err |-> NoErr, n |-> IF want > 0 THEN want - 1 ELSE 0]
    ELSE IF Len(in) = 0 THEN [err |-> EOF, n |-> 0]
    ELSE [err |-> ErrUnexpectedEOF, n |-> Len(in)]

\* io.ReadFull(r, buf) with len(buf) = want on a stream holding in: the
\* error and the number of bytes taken from the stream.
ReadFull(in, want) ==
    IF Len(in) >= want THEN [err |-> NoErr, n |-> want]
    ELSE IF Len(in) = 0 THEN [err |-> EOF, n |-> 0]
    ELSE [err |-> ErrUnexpectedEOF, n |-> Len(in)]
\* io.EOF handed to the caller as it is.
ReadErrorKeepsEOF(err) == err

\* if err == io.EOF { return nil, io.ErrUnexpectedEOF }; return nil, err
ReadError(err) == IF err = EOF THEN ErrUnexpectedEOF ELSE err
\* The whole length field taken for the payload size.
PayloadSizeWholeLength(length) == length

\* length - 4, the size given to make([]byte, ...).
PayloadSize(length) == Sub32(length, 4)

Read(in) ==
    LET h == ReadFull(in, 5)
        in1 == Drop(in, h.n)
        header == Take(in, 5)
        kind == header[1]
        length == readInt32(Drop(header, 1), 0)
        size == PayloadSize(length.out)
        d == ReadFull(in1, size)
        data == Take(in1, d.n)
        rest == Drop(in1, d.n)
    IN  IF h.err # NoErr
        THEN [err |-> ReadError(h.err), msg |-> NoMsg, data |-> <<>>, rest |-> in1]
        ELSE IF length.err # NoErr
        THEN [err |-> length.err, msg |-> NoMsg, data |-> <<>>, rest |-> in1]
        ELSE IF size < 0
        THEN [err |-> Panic, msg |-> NoMsg, data |-> <<>>, rest |-> in1]
        ELSE IF d.err # NoErr
        THEN [err |-> ReadError(d.err), msg |-> NoMsg, data |-> <<>>, rest |-> rest]
        ELSE LET r == parseMessage(kind, data)
             IN  [err |-> r.err, msg |-> r.msg, data |-> data, rest |-> rest]

(***************************************************************************)
(* Inputs of the model: the message values handed to Encode and the raw    *)
(* bytes a peer may put on the stream.                                     *)
(***************************************************************************)
SeqsUpTo(S, n) == UNION { [1..k -> S] : k \in 0..n }

Slices(S, n) == { NilSlice } \cup { MakeSlice(s) : s \in SeqsUpTo(S, n) }

Strs == SeqsUpTo({97, 98}, MaxStr)

Blobs == Slices({0, 255}, MaxBlob)

Int8s == {-1, 0, 1}

Int16s == {-2, 0, 1}

Int32s == {-1, 0, 111, 2147483647}

Salts == [1..4 -> {0, 255}]

SecretKeys == { MakeSlice(s) : s \in UNION { [1..k -> {7, 255}] : k \in 3..5 } }

FieldPairs == {83, 77} \X Strs

RowFieldDescs ==
    { << nm, 1, 2, 23, 4, -1, 0 >> : nm \in Strs } \cup { << <<>>, -1, -2, 0, -1, 2147483647, 1 >> }

\* An ErrorResponse / NoticeResponse with the given (field, value) pairs;
\* nilform chooses nil or empty slices when there is no pair.
FieldsValue(type, pairs, nilform) ==
    IF pairs = <<>> /\ nilform
    THEN [type |-> type, Fields |-> NilSlice, Values |-> NilSlice]
    ELSE [type |-> type, Fields |-> MakeSlice([i \in 1..Len(pairs) |-> pairs[i][1]]),
          Values |-> MakeSlice([i \in 1..Len(pairs) |-> pairs[i][2]])]

RowDescriptionValue(fs) ==
    LET col(k) == MakeSlice([i \in 1..Len(fs) |-> fs[i][k]])
    IN  [type |-> "RowDescription", Names |-> col(1), Tables |-> col(2), Columns |-> col(3),
         DataTypes |-> col(4), Sizes |-> col(5), Modifiers |-> col(6), Formats |-> col(7)]

MsgTypes ==
    AuthTypes \cup EmptyTypes \cup
    { "BackendKeyData", "CommandComplete", "CopyData", "CopyInResponse", "CopyOutResponse",
      "CopyBothResponse", "DataRow", "ErrorResponse", "FunctionCallResponse",
      "NegotiateProtocolVersion", "NoticeResponse", "NotificationResponse",
      "ParameterDescription", "ParameterStatus", "ReadyForQuery", "RowDescription", "Unknown" }

ValuesOf(t) ==
    CASE t = "AuthenticationMD5Password" -> { [type |-> t, Salt |-> s] : s \in Salts }
      [] t \in {"AuthenticationGSSContinue", "AuthenticationSASLContinue",
                "AuthenticationSASLFinal", "CopyData"} ->
            { [type |-> t, Data |-> d] : d \in Blobs }
      [] t = "AuthenticationSASL" ->
            { [type |-> t, Mechanisms |-> m] : m \in Slices(Strs, MaxCols) }
      [] t = "BackendKeyData" ->
            { [type |-> t, ProcessID |-> p, SecretKey |-> k] : p \in Int32s, k \in SecretKeys }
      [] t = "CommandComplete" -> { [type |-> t, Tag |-> s] : s \in Strs \cup { <<97, 0>> } }
      [] t \in {"CopyInResponse", "CopyOutResponse", "CopyBothResponse"} ->
            { [type |-> t, Format |-> f, Columns |-> c] : f \in Int8s, c \in Slices(Int16s, MaxCols) }
      [] t = "DataRow" -> { [type |-> t, Columns |-> c] : c \in Slices(Blobs, MaxCols) }
      [] t \in {"ErrorResponse", "NoticeResponse"} ->
            { FieldsValue(t, ps, nf) : ps \in SeqsUpTo(FieldPairs, MaxCols), nf \in BOOLEAN }
      [] t = "FunctionCallResponse" -> { [type |-> t, Result |-> r] : r \in Blobs }
      [] t = "NegotiateProtocolVersion" ->
            { [type |-> t, MinorVersionSupported |-> v, UnrecognizedOptions |-> o] :
                v \in Int32s, o \in Slices(Strs, MaxCols) }
      [] t = "NotificationResponse" ->
            { [type |-> t, ProcessID |-> p, Channel |-> c, Payload |-> l] :
                p \in Int32s, c \in Strs, l \in Strs }
      [] t = "ParameterDescription" ->
            { [type |-> t, Parameters |-> ps] : ps \in Slices(Int32s, MaxCols) }
      [] t = "ParameterStatus" ->
            { [type |-> t, Name |-> n, Value |-> v] : n \in Strs, v \in Strs \cup { <<0>> } }
      [] t = "ReadyForQuery" -> { [type |-> t, TxStatus |-> b] : b \in {73, 84, 69, 0, 255} }
      [] t = "RowDescription" ->
            { RowDescriptionValue(fs) : fs \in SeqsUpTo(RowFieldDescs, MaxCols) }
      [] OTHER -> { [type |-> t] }

RawBytes == {0, 1, 255}

RawPayloads == SeqsUpTo(RawBytes, MaxPayload)

\* Nothing, or the first MaxTail bytes of the next envelope.
Tails == { <<>>, [i \in 1..MaxTail |-> msgKindAuthentication] }

KnownKinds ==
    { msgKindAuthentication, msgKindKeyData, msgKindBindComplete, msgKindCloseComplete,
      msgKindCommandComplete, msgKindCopyData, msgKindCopyDone, msgKindCopyInResponse,
      msgKindCopyOutResponse, msgKindCopyBothResponse, msgKindDataRow,
      msgKindEmptyQueryResponse, msgKindErrorResponse, msgKindFunctionCallResponse,
      msgKindNegotiateProtocolVersion, msgKindNoData, msgKindNoticeResponse,
      msgKindNotificationResponse, msgKindParameterDescription, msgKindParameterStatus,
      msgKindParseComplete, msgKindPortalSuspended, msgKindReadyForQuery,
      msgKindRowDescription }

RawKinds == (KnownKinds \ { msgKindAuthentication }) \cup {0, 120}

AuthKinds ==
    { authKindOk, authKindKerberosV5, authKindCleartextPassword, authKindMD5Password,
      authKindGSS, authKindGSSContinue, authKindSSPI, authKindSASL, authKindSASLContinue,
      authKindSASLFinal }

RawAuthKinds == AuthKinds \cup {-1, 1, 13}

HeaderKinds == { msgKindBindComplete, msgKindCopyData, msgKindAuthentication, 0 }

HeaderLengths == { -2147483647 - 1, -1, 0, 1, 3, 4, 5, 6 }

HeaderRests == SeqsUpTo({0, 255}, 2)

\* Secret key lengths around the two limits of BackendKeyData.Decode.
KeyLengths ==
    { MinSecretKey - 1, MinSecretKey, MaxSecretKey - 1, MaxSecretKey, MaxSecretKey + 1,
      MaxSecretKey + 44 }

\* Option counts and option bytes of a NegotiateProtocolVersion payload.
OptionCounts == { -1, 0, 1, 2, 3 }

OptionBodies == SeqsUpTo({0, 97}, 3)

\* Whole envelopes a peer sends one after the other: two that decode, and
\* one for each payload error (ErrValueUnderflow from ReadyForQuery and from
\* BackendKeyData, ErrInvalidValue, ErrValueOverflow).
Envelopes ==
    { writeMessage(msgKindReadyForQuery, << 73 >>),
      writeMessage(msgKindCommandComplete, << 97, 0 >>),
      writeMessage(msgKindReadyForQuery, <<>>),
      writeMessage(msgKindKeyData, << 0, 0, 0, 1, 7 >>),
      writeMessage(0, << 1 >>),
      writeMessage(msgKindKeyData, PutInt32(1) \o [i \in 1..(MaxSecretKey + 1) |-> 7]) }

PrimFns == { "readByte", "readInt8", "readInt16", "readInt32", "readString" }

PrimBufs == SeqsUpTo({0, 97, 255}, MaxPrim)

PrimInit(fn) == IF fn = "readString" THEN { <<>>, <<120>> } ELSE { 0, 7 }

(***************************************************************************)
(* The validating conversions of the typed revision.  Each converts its    *)
(* argument to the named type, and reports ErrInvalidValue when the value   *)
(* is none of the constants declared for the type; the converted value is   *)
(* returned in both cases.                                                  *)
(***************************************************************************)
\* The declared constants of type Kind: R K 2 3 C d c G H W D I E V v n N A t S 1 s Z T.
Kind == { 82, 75, 50, 51, 67, 100, 99, 71, 72, 87, 68, 73, 69, 86, 118, 110, 78, 65,
          116, 83, 49, 115, 90, 84 }

\* The declared constants of type AuthKind.
AuthKind == { 0, 2, 3, 5, 7, 8, 9, 10, 11, 12 }

\* The declared constants of type Field: S V C M D H P p q W s t c d n F L R.
Field == { 83, 86, 67, 77, 68, 72, 80, 112, 113, 87, 115, 116, 99, 100, 110, 70, 76, 82 }

\* FormatText and FormatBinary.
Format == { 0, 1 }

\* TxStatusIdle 'I', TxStatusActive 'T', TxStatusError 'E'.
TxStatus == { 73, 84, 69 }

ParseFieldAcceptsAny(b) == [out |-> b, err |-> NoErr]

ParseKind(b) == [out |-> b, err |-> IF b \in Kind THEN NoErr ELSE ErrInvalidValue]

ParseAuthKind(i) == [out |-> i, err |-> IF i \in AuthKind THEN NoErr ELSE ErrInvalidValue]

ParseField(b) == [out |-> b, err |-> IF b \in Field THEN NoErr ELSE ErrInvalidValue]

ParseFormat(i) == [out |-> i, err |-> IF i \in Format THEN NoErr ELSE ErrInvalidValue]

ParseTxStatus(b) == [out |-> b, err |-> IF b \in TxStatus THEN NoErr ELSE ErrInvalidValue]

Validators == { "ParseKind", "ParseAuthKind", "ParseField", "ParseFormat", "ParseTxStatus" }

\* The arguments a validator is called with: every byte, and the int32 and
\* int16 values around the declared ones together with the extremes of the type.
ValidatorArgs(fn) ==
    CASE fn = "ParseAuthKind" -> (-2 .. 14) \cup { -2147483647 - 1, 2147483647 }
      [] fn = "ParseFormat"   -> (-2 .. 3) \cup { -32768, 256, 32767 }
      [] OTHER                -> 0 .. 255

Validate(fn, v) ==
    CASE fn = "ParseKind"     -> ParseKind(v)
      [] fn = "ParseAuthKind" -> ParseAuthKind(v)
      [] fn = "ParseField"    -> ParseField(v)
      [] fn = "ParseFormat"   -> ParseFormat(v)
      [] fn = "ParseTxStatus" -> ParseTxStatus(v)

(***************************************************************************)
(* The framing of the typed revision: an xMessage is a kind and the bytes  *)
(* of a payload.                                                           *)
(***************************************************************************)
\* writeKind(&buf, m.kind); writeInt32(&buf, int32(len(m.data)));
\* writeBytes(&buf, m.data); return buf.Bytes(), nil
xMessageEncode(kind, data) == writeByte(kind) \o writeInt32(Len(data)) \o writeBytes(data)

\* r.Read(p) with len(p) = want on a bytes.Buffer holding in: io.EOF when
\* the buffer is empty and want > 0, otherwise as many bytes as there are.
BufferRead(in, want) ==
    IF Len(in) = 0 /\ want > 0 THEN [err |-> EOF, n |-> 0]
    ELSE [err |-> NoErr, n |-> IF want < Len(in) THEN want ELSE Len(in)]

\* ReadMessage(r, &m) on a bytes.Buffer holding in and a zero m: the error
\* returned, the fields of m, and the bytes left in the buffer.
ReadMessage(in) ==
    LET k == BufferRead(in, 1)
        in1 == Drop(in, k.n)
        l == BufferRead(in1, 4)
        in2 == Drop(in1, l.n)
        kind == ParseKind(in[1])
        length == Sub32(BigEndianInt32(Take(in1, 4)), 4)
        d == BufferRead(in2, length)
        rest == Drop(in2, d.n)
    IN  IF k.err # NoErr
        THEN [err |-> ReadError(k.err), kind |-> 0, data |-> NilSlice, rest |-> in1]
        ELSE IF l.err # NoErr
        THEN [err |-> ReadError(l.err), kind |-> 0, data |-> NilSlice, rest |-> in2]
        ELSE IF l.n # 4
        THEN [err |-> ErrUnexpectedEOF, kind |-> 0, data |-> NilSlice, rest |-> in2]
        ELSE IF kind.err # NoErr
        THEN [err |-> kind.err, kind |-> kind.out, data |-> NilSlice, rest |-> in2]
        ELSE IF length < 0
        THEN [err |-> Panic, kind |-> kind.out, data |-> NilSlice, rest |-> in2]
        ELSE IF d.err # NoErr
        THEN [err |-> ReadError(d.err), kind |-> kind.out, data |-> NilSlice, rest |-> rest]
        ELSE IF d.n # length
        THEN [err |-> ErrUnexpectedEOF, kind |-> kind.out, data |-> NilSlice, rest |-> rest]
        ELSE [err |-> NoErr, kind |-> kind.out, data |-> MakeSlice(Take(in2, length)),
              rest |-> rest]

\* The kinds and payloads handed to xMessage.Encode.
FrameKinds == { 82, 90, 50, 0 }

FrameData == SeqsUpTo({0, 255}, MaxFrame)

(***************************************************************************)
(* writeMessage on a stream whose Write may fail.  The stream w fails its  *)
(* w.failAt-th Write (never, when w.failAt = 0) with the error w.err after *)
(* taking at most the first w.partial bytes of it.                         *)
(***************************************************************************)
\* Every write is made and the error of the last one is returned.
writeMessageToKeepsWriting(w, kind, b) ==
    LET Took(k, bs) == IF k = w.failAt /\ w.partial < Len(bs) THEN Take(bs, w.partial) ELSE bs
    IN  [err |-> IF w.failAt = 3 THEN w.err ELSE NoErr,
         written |-> Took(1, writeByte(kind)) \o Took(2, writeInt32(Len(b) + 4))
                        \o Took(3, writeBytes(b)),
         calls |-> 3]

\* err := writeByte(w, kind); if err != nil { return err }
\* err = writeInt32(w, int32(len(b))+4); if err != nil { return err }
\* return writeBytes(w, b)
\* where the k-th w.Write(bs) returns Err(k) after the stream took Took(k, bs).
writeMessageTo(w, kind, b) ==
    LET Err(k) == IF k = w.failAt THEN w.err ELSE NoErr
        Took(k, bs) == IF k = w.failAt /\ w.partial < Len(bs) THEN Take(bs, w.partial) ELSE bs
        kindBytes == Took(1, writeByte(kind))
        lengthBytes == Took(2, writeInt32(Len(b) + 4))
        payloadBytes == Took(3, writeBytes(b))
    IN  IF Err(1) # NoErr
        THEN [err |-> Err(1), written |-> kindBytes, calls |-> 1]
        ELSE IF Err(2) # NoErr
        THEN [err |-> Err(2), written |-> kindBytes \o lengthBytes, calls |-> 2]
        ELSE [err |-> Err(3), written |-> kindBytes \o lengthBytes \o payloadBytes,
              calls |-> 3]

\* The streams, kinds and payloads writeMessage is called with.
Writers == [failAt : 0..3, partial : 0..1, err : { "closed pipe", "short write" }]

WriteKinds == { msgKindAuthentication, msgKindReadyForQuery }

WritePayloads == SeqsUpTo({0, 255}, MaxWrite)

(***************************************************************************)
(* The state: one encode / transport / decode cycle over a byte stream,    *)
(* and one call sequence of the primitive reads.                           *)
(***************************************************************************)
VARIABLES pc, origin, sent, enc, input, stream, rd, renc, prim, parsed, framed, wr

vars == << pc, origin, sent, enc, input, stream, rd, renc, prim, parsed, framed, wr >>

NoEnc == [err |-> NoErr, kind |-> 0, payload |-> <<>>, bytes |-> <<>>]

NoRead == [err |-> NoErr, msg |-> NoMsg, data |-> <<>>]

NoPrim == [fn |-> "none", buf |-> <<>>, out0 |-> 0, n |-> 0, err |-> NoErr, out |-> 0,
           base |-> <<>>, off |-> 0]

NoParsed == [fn |-> "none", arg |-> 0, out |-> 0, err |-> NoErr]

NoWrite == [w |-> [failAt |-> 0, partial |-> 0, err |-> NoErr], kind |-> 0, payload |-> <<>>,
            err |-> NoErr, written |-> <<>>, calls |-> 0]

NoFramed == [kind |-> 0, data |-> <<>>, bytes |-> <<>>, err |-> NoErr, rkind |-> 0,
             rdata |-> NilSlice, rest |-> <<>>]

Init ==
    /\ pc = "idle"
    /\ origin = "none"
    /\ sent = NoMsg
    /\ enc = NoEnc
    /\ input = <<>>
    /\ stream = <<>>
    /\ rd = NoRead
    /\ renc = NoEnc
    /\ prim = NoPrim
    /\ parsed = NoParsed
    /\ framed = NoFramed
    /\ wr = NoWrite

\* x.Encode(&buf) on an empty buffer.
SendEncoded(x) ==
    /\ pc = "idle"
    /\ pc' = "ready"
    /\ origin' = "encoded"
    /\ sent' = x
    /\ enc' = Encode(x)
    /\ stream' = enc'.bytes
    /\ UNCHANGED << input, rd, renc, prim, parsed, framed, wr >>

\* The stream loses its last byte before it is read.
Truncate ==
    /\ pc = "ready"
    /\ origin \in {"encoded", "truncated"}
    /\ Len(stream) > 0
    /\ origin' = "truncated"
    /\ stream' = Take(stream, Len(stream) - 1)
    /\ UNCHANGED << pc, sent, enc, input, rd, renc, prim, parsed, framed, wr >>

\* A peer writes an envelope with a consistent length field, followed by
\* the first bytes of whatever it sends next.
InjectPayload(kind, payload, tail) ==
    /\ pc = "idle"
    /\ pc' = "ready"
    /\ origin' = "raw"
    /\ stream' = << kind >> \o PutInt32(Len(payload) + 4) \o payload \o tail
    /\ UNCHANGED << sent, enc, input, rd, renc, prim, parsed, framed, wr >>

\* A peer writes a header with an arbitrary length field.
InjectHeader(kind, length, rest) ==
    /\ pc = "idle"
    /\ pc' = "ready"
    /\ origin' = "header"
    /\ stream' = << kind >> \o PutInt32(length) \o rest
    /\ UNCHANGED << sent, enc, input, rd, renc, prim, parsed, framed, wr >>

\* A peer writes a BackendKeyData envelope with a secret key of n bytes.
InjectKeyData(pid, n) ==
    /\ pc = "idle"
    /\ pc' = "ready"
    /\ origin' = "raw"
    /\ stream' = writeMessage(msgKindKeyData, PutInt32(pid) \o [i \in 1..n |-> i % 256])
    /\ UNCHANGED << sent, enc, input, rd, renc, prim, parsed, framed, wr >>

\* A peer writes a NegotiateProtocolVersion envelope that declares count
\* options and carries the bytes body for them.
InjectProtocolVersion(count, body) ==
    /\ pc = "idle"
    /\ pc' = "ready"
    /\ origin' = "raw"
    /\ stream' = writeMessage(msgKindNegotiateProtocolVersion,
                              PutInt32(3) \o PutInt32(count) \o body)
    /\ UNCHANGED << sent, enc, input, rd, renc, prim, parsed, framed, wr >>

\* A peer writes two or three whole envelopes.
InjectEnvelopes(first, second, third) ==
    /\ pc = "idle"
    /\ pc' = "ready"
    /\ origin' = "envelopes"
    /\ stream' = first \o second \o third
    /\ UNCHANGED << sent, enc, input, rd, renc, prim, parsed, framed, wr >>

\* Read(&stream)
DoRead ==
    /\ pc = "ready"
    /\ pc' = "read"
    /\ input' = stream
    /\ \E r \in { Read(stream) } :
            /\ rd' = [err |-> r.err, msg |-> r.msg, data |-> r.data]
            /\ stream' = r.rest
    /\ UNCHANGED << origin, sent, enc, renc, prim, parsed, framed, wr >>

\* Read(&stream) once more, on what the last Read left in the stream.
ReadAgain ==
    /\ pc = "read"
    /\ Len(stream) > 0
    /\ input' = stream
    /\ \E r \in { Read(stream) } :
            /\ rd' = [err |-> r.err, msg |-> r.msg, data |-> r.data]
            /\ stream' = r.rest
    /\ UNCHANGED << pc, origin, sent, enc, renc, prim, parsed, framed, wr >>

\* The message Read returned is encoded again.
Reencode ==
    /\ pc = "read"
    /\ rd.err = NoErr
    /\ pc' = "reencoded"
    /\ renc' = Encode(rd.msg)
    /\ UNCHANGED << origin, sent, enc, input, stream, rd, prim, parsed, framed, wr >>

\* One call of a primitive read on a fresh buffer.
CallPrimitive(fn, b, out0) ==
    /\ pc = "idle"
    /\ pc' = "prim"
    /\ \E r \in { CallPrim(fn, b, out0) } :
            prim' = [fn |-> fn, buf |-> b, out0 |-> out0, n |-> r.n, err |-> r.err,
                     out |-> r.out, base |-> b, off |-> 0]
    /\ UNCHANGED << origin, sent, enc, input, stream, rd, renc, parsed, framed, wr >>

\* b = b[bread:] and the same primitive is called again on the remainder.
CallAgain ==
    /\ pc = "prim"
    /\ prim.err = NoErr
    /\ Len(prim.buf) > 0
    /\ \E r \in { CallPrim(prim.fn, Drop(prim.buf, prim.n), prim.out) } :
            prim' = [fn |-> prim.fn, buf |-> Drop(prim.buf, prim.n), out0 |-> prim.out,
                     n |-> r.n, err |-> r.err, out |-> r.out, base |-> prim.base,
                     off |-> prim.off + prim.n]
    /\ UNCHANGED << pc, origin, sent, enc, input, stream, rd, renc, parsed, framed, wr >>

\* v, err := fn(arg), for one of the validating conversions.
CallValidator(fn, arg) ==
    /\ pc = "idle"
    /\ pc' = "parsed"
    /\ \E r \in { Validate(fn, arg) } :
          parsed' = [fn |-> fn, arg |-> arg, out |-> r.out, err |-> r.err]
    /\ UNCHANGED << origin, sent, enc, input, stream, rd, renc, prim, framed, wr >>

\* b, _ := m.Encode() for m = xMessage{kind, data}; the bytes are put in a
\* bytes.Buffer.
EncodeMessage(kind, data) ==
    /\ pc = "idle"
    /\ pc' = "framed"
    /\ framed' = [NoFramed EXCEPT !.kind = kind, !.data = data,
                                  !.bytes = xMessageEncode(kind, data),
                                  !.rest = xMessageEncode(kind, data)]
    /\ UNCHANGED << origin, sent, enc, input, stream, rd, renc, prim, parsed, wr >>

\* err := ReadMessage(&buf, &m)
DoReadMessage ==
    /\ pc = "framed"
    /\ pc' = "unframed"
    /\ \E r \in { ReadMessage(framed.rest) } :
          framed' = [framed EXCEPT !.err = r.err, !.rkind = r.kind, !.rdata = r.data,
                                   !.rest = r.rest]
    /\ UNCHANGED << origin, sent, enc, input, stream, rd, renc, prim, parsed, wr >>

\* err := writeMessage(w, kind, b)
CallWriteMessage(w, kind, b) ==
    /\ pc = "idle"
    /\ pc' = "written"
    /\ \E r \in { writeMessageTo(w, kind, b) } :
          wr' = [w |-> w, kind |-> kind, payload |-> b, err |-> r.err,
                 written |-> r.written, calls |-> r.calls]
    /\ UNCHANGED << origin, sent, enc, input, stream, rd, renc, prim, parsed, framed >>

\* The cycle is over; the next one starts from fresh values.
Reset ==
    /\ pc \in {"read", "reencoded", "prim", "parsed", "unframed", "written"}
    /\ pc' = "idle"
    /\ origin' = "none"
    /\ sent' = NoMsg
    /\ enc' = NoEnc
    /\ input' = <<>>
    /\ stream' = <<>>
    /\ rd' = NoRead
    /\ renc' = NoEnc
    /\ prim' = NoPrim
    /\ parsed' = NoParsed
    /\ framed' = NoFramed
    /\ wr' = NoWrite

\* The inputs are enumerated only where a cycle can start.
Idle == pc = "idle"

Next ==
    \/ Idle /\ \E t \in MsgTypes : \E x \in ValuesOf(t) : SendEncoded(x)
    \/ Truncate
    \/ Idle /\ \E kind \in RawKinds, payload \in RawPayloads, tail \in Tails :
                    InjectPayload(kind, payload, tail)
    \/ Idle /\ \E k \in RawAuthKinds, body \in RawPayloads, tail \in Tails :
                    InjectPayload(msgKindAuthentication, PutInt32(k) \o body, tail)
    \/ Idle /\ \E kind \in HeaderKinds, length \in HeaderLengths, rest \in HeaderRests :
                    InjectHeader(kind, length, rest)
    \/ Idle /\ \E pid \in {-1, 111}, n \in KeyLengths : InjectKeyData(pid, n)
    \/ Idle /\ \E count \in OptionCounts, body \in OptionBodies :
                    InjectProtocolVersion(count, body)
    \/ Idle /\ \E first \in Envelopes, second \in Envelopes, third \in Envelopes \cup { <<>> } :
                    InjectEnvelopes(first, second, third)
    \/ DoRead
    \/ ReadAgain
    \/ Reencode
    \/ Idle /\ \E fn \in PrimFns : \E b \in PrimBufs : \E out0 \in PrimInit(fn) :
                    CallPrimitive(fn, b, out0)
    \/ CallAgain
    \/ Idle /\ \E fn \in Validators : \E arg \in ValidatorArgs(fn) : CallValidator(fn, arg)
    \/ Idle /\ \E kind \in FrameKinds, data \in FrameData : EncodeMessage(kind, data)
    \/ DoReadMessage
    \/ Idle /\ \E w \in Writers, kind \in WriteKinds, b \in WritePayloads :
                    CallWriteMessage(w, kind, b)
    \/ Reset

Spec == Init /\ [][Next]_vars

(***************************************************************************)
(* Properties.                                                             *)
(***************************************************************************)
HasRead == pc \in {"read", "reencoded"}

\* The big-endian two's complement value of the bytes bs.
RECURSIVE Horner(_, _)
Horner(acc, bs) == IF bs = <<>> THEN acc ELSE Horner(acc * 256 + Head(bs), Tail(bs))

SignedValue(bs) == Horner(IF Head(bs) >= 128 THEN Head(bs) - 256 ELSE Head(bs), Tail(bs))

\* The length field of the envelope at the start of in.
DeclaredLength(in) == SignedValue(SubSeq(in, 2, 5))

\* C3: writeMessage(w, kind, payload) writes the kind byte, then the four
\* bytes of the big-endian value len(payload)+4, then the payload bytes
\* unchanged, and nothing else.
C3_WriteMessageLayout ==
    (origin \in {"encoded", "truncated"} /\ enc.err = NoErr) =>
        /\ Len(enc.bytes) = 1 + 4 + Len(enc.payload)
        /\ enc.bytes[1] = enc.kind
        /\ SignedValue(SubSeq(enc.bytes, 2, 5)) = Len(enc.payload) + 4
        /\ SubSeq(enc.bytes, 6, Len(enc.bytes)) = enc.payload

C3_Witness ==
    /\ pc = "ready"
    /\ origin = "encoded"
    /\ enc.kind = msgKindDataRow
    /\ Len(enc.payload) > 6
    /\ stream = enc.bytes

\* C4: when Read succeeds it has taken from the stream the kind byte, the
\* four length bytes holding L and L-4 payload bytes, it has decoded exactly
\* those L-4 bytes, and every byte after the envelope is still in the stream.
C4_ReadConsumesEnvelope ==
    (HasRead /\ rd.err = NoErr) =>
        /\ Len(input) >= 5
        /\ DeclaredLength(input) >= 4
        /\ Len(input) >= 1 + DeclaredLength(input)
        /\ rd.data = SubSeq(input, 6, 1 + DeclaredLength(input))
        /\ stream = SubSeq(input, 2 + DeclaredLength(input), Len(input))
        /\ Len(input) - Len(stream) = 1 + 4 + (DeclaredLength(input) - 4)
        /\ rd.msg = parseMessage(input[1], SubSeq(input, 6, 1 + DeclaredLength(input))).msg

C4_Witness ==
    /\ pc = "read"
    /\ rd.err = NoErr
    /\ rd.msg.type = "CopyData"
    /\ Len(rd.data) = 2
    /\ Len(stream) = MaxTail

\* A stream that ends before its five header bytes or before the L-4
\* payload bytes its header announces.
EndsEarly(in) ==
    \/ Len(in) < 5
    \/ /\ DeclaredLength(in) >= 4
       /\ Len(in) - 5 < DeclaredLength(in) - 4

\* C5: a written message that lost its last byte (or more) makes Read fail
\* with io.ErrUnexpectedEOF or ErrValueUnderflow and return no message; any
\* stream that ends before the header or payload is complete, the empty
\* stream included, yields io.ErrUnexpectedEOF.
C5_TruncationFails ==
    /\ (pc = "read" /\ origin = "truncated") =>
            /\ rd.err \in {ErrUnexpectedEOF, ErrValueUnderflow}
            /\ rd.msg = NoMsg
    /\ (pc = "read" /\ EndsEarly(input)) =>
            /\ rd.err = ErrUnexpectedEOF
            /\ rd.msg = NoMsg

C5_Witness ==
    /\ pc = "read"
    /\ origin = "truncated"
    /\ Len(input) = Len(enc.bytes) - 1
    /\ Len(input) > 5
    /\ rd.err = ErrUnexpectedEOF
    /\ rd.msg = NoMsg

FixedWidth(fn) ==
    CASE fn = "readByte" -> 1
      [] fn = "readInt8" -> 1
      [] fn = "readInt16" -> 2
      [] fn = "readInt32" -> 4

\* C7: a fixed-width read given fewer bytes than its width returns
\* ErrValueUnderflow, reports 0 bytes and leaves its output as it was; given
\* at least width bytes it returns the big-endian value of the first width
\* bytes and reports width bytes.
C7_FixedWidthReads ==
    (pc = "prim" /\ prim.fn # "readString") =>
        IF Len(prim.buf) < FixedWidth(prim.fn)
        THEN /\ prim.err = ErrValueUnderflow
             /\ prim.n = 0
             /\ prim.out = prim.out0
        ELSE /\ prim.err = NoErr
             /\ prim.n = FixedWidth(prim.fn)
             /\ prim.out = IF prim.fn = "readByte"
                           THEN prim.buf[1]
                           ELSE SignedValue(SubSeq(prim.buf, 1, FixedWidth(prim.fn)))

C7_Witness ==
    /\ pc = "prim"
    /\ prim.fn = "readInt16"
    /\ prim.off = 2
    /\ Len(prim.buf) = 1
    /\ prim.err = ErrValueUnderflow
    /\ prim.out = prim.out0
    /\ prim.out < 0

\* C8: readString returns the bytes before the first 0x00 of its buffer and
\* reports that length plus one, so successive calls on the remainder walk
\* the strings of the original buffer; without a 0x00 it returns
\* ErrValueUnderflow, reports 0 bytes and leaves the output string as it was.
C8_ReadString ==
    (pc = "prim" /\ prim.fn = "readString") =>
        /\ prim.buf = SubSeq(prim.base, prim.off + 1, Len(prim.base))
        /\ IF \E i \in 1..Len(prim.buf) : prim.buf[i] = 0
           THEN /\ prim.err = NoErr
                /\ \A i \in 1..Len(prim.out) : prim.out[i] # 0
                /\ prim.n = Len(prim.out) + 1
                /\ prim.out = SubSeq(prim.base, prim.off + 1, prim.off + Len(prim.out))
                /\ prim.base[prim.off + prim.n] = 0
           ELSE /\ prim.err = ErrValueUnderflow
                /\ prim.n = 0
                /\ prim.out = prim.out0

C8_Witness ==
    /\ pc = "prim"
    /\ prim.fn = "readString"
    /\ prim.base = << 97, 0, 255, 97, 0 >>
    /\ prim.off = 2
    /\ prim.out = << 255, 97 >>
    /\ prim.n = 3

\* The position in the DataRow payload p of the length field of column i.
RECURSIVE ColumnOffset(_, _)
ColumnOffset(p, i) ==
    IF i = 1 THEN 3
    ELSE LET o == ColumnOffset(p, i - 1)
             l == SignedValue(SubSeq(p, o, o + 3))
         IN  o + 4 + (IF l = -1 THEN 0 ELSE l)

\* C9: a decoded DataRow has exactly count columns in wire order; a length
\* of -1 gives a nil column that takes no data bytes, a length of 0 gives
\* an empty non-nil column, and the two differ in the result.
C9_DataRowColumns ==
    (HasRead /\ rd.err = NoErr /\ rd.msg.type = "DataRow") =>
        LET p == rd.data
            cols == rd.msg.Columns.elems
        IN  /\ Len(cols) = SignedValue(SubSeq(p, 1, 2))
            /\ \A i \in 1..Len(cols) :
                LET o == ColumnOffset(p, i)
                    l == SignedValue(SubSeq(p, o, o + 3))
                IN  /\ l = -1 => cols[i] = NilSlice
                    /\ l = 0 => cols[i] = MakeSlice(<<>>) /\ cols[i] # NilSlice
                    /\ l >= 0 => cols[i] = MakeSlice(SubSeq(p, o + 4, o + 3 + l))

C9_Witness ==
    /\ pc = "read"
    /\ rd.err = NoErr
    /\ rd.msg.type = "DataRow"
    /\ rd.data = << 0, 2, 255, 255, 255, 255, 0, 0, 0, 0 >>
    /\ rd.msg.Columns.elems = << NilSlice, MakeSlice(<<>>) >>

\* The wire form of a nullable blob: length -1 and no data for nil, length
\* 0 for empty, the length and the bytes otherwise.
NullableWire(x) ==
    IF x.isnil THEN << 255, 255, 255, 255 >>
    ELSE << 0, 0, 0, Len(x.elems) >> \o x.elems

\* C10: Encode writes a nil DataRow column or FunctionCallResponse result
\* as length -1 without data, an empty one as length 0 and a present one as
\* its length and bytes; Read maps the three back to nil, empty and present.
C10_NullableBlobs ==
    /\ (origin = "encoded" /\ sent.type = "FunctionCallResponse") =>
            /\ enc.payload = NullableWire(sent.Result)
            /\ HasRead => (rd.err = NoErr /\ rd.msg.Result = sent.Result)
    /\ (origin = "encoded" /\ sent.type = "DataRow") =>
            /\ enc.payload = << 0, Len(sent.Columns.elems) >>
                                \o Concat([i \in 1..Len(sent.Columns.elems) |->
                                              NullableWire(sent.Columns.elems[i])])
            /\ HasRead => (rd.err = NoErr /\ rd.msg.Columns.elems = sent.Columns.elems)

C10_Witness ==
    /\ pc = "read"
    /\ origin = "encoded"
    /\ sent.type = "DataRow"
    /\ sent.Columns.elems = << NilSlice, MakeSlice(<<>>) >>
    /\ enc.payload = << 0, 2, 255, 255, 255, 255, 0, 0, 0, 0 >>
    /\ rd.msg.Columns.elems = << NilSlice, MakeSlice(<<>>) >>

NoNul(str) == \A i \in 1..Len(str) : str[i] # 0

AllNoNul(strs) == \A i \in 1..Len(strs) : NoNul(strs[i])

Allocated(f, n) == ~f.isnil /\ SliceLen(f) = n

\* The values of each variant that have a wire form of their own: strings
\* without 0x00, slices allocated (only a DataRow column and a
\* FunctionCallResponse result may be nil), a secret key of 4 to 256 bytes,
\* at least one field in an ErrorResponse or NoticeResponse, parallel arrays
\* of one length.
ValidValue(x) ==
    CASE x.type = "AuthenticationSASL" ->
            /\ ~x.Mechanisms.isnil
            /\ AllNoNul(x.Mechanisms.elems)
            /\ \A i \in 1..SliceLen(x.Mechanisms) : x.Mechanisms.elems[i] # <<>>
      [] x.type \in {"AuthenticationGSSContinue", "AuthenticationSASLContinue",
                     "AuthenticationSASLFinal", "CopyData"} -> ~x.Data.isnil
      [] x.type = "BackendKeyData" ->
            /\ ~x.SecretKey.isnil
            /\ SliceLen(x.SecretKey) >= MinSecretKey
            /\ SliceLen(x.SecretKey) <= MaxSecretKey
      [] x.type = "CommandComplete" -> NoNul(x.Tag)
      [] x.type \in {"CopyInResponse", "CopyOutResponse", "CopyBothResponse"} -> ~x.Columns.isnil
      [] x.type = "DataRow" -> ~x.Columns.isnil
      [] x.type \in {"ErrorResponse", "NoticeResponse"} ->
            /\ ~x.Fields.isnil /\ ~x.Values.isnil
            /\ SliceLen(x.Fields) = SliceLen(x.Values)
            /\ SliceLen(x.Fields) >= 1
            /\ \A i \in 1..SliceLen(x.Fields) : x.Fields.elems[i] # 0
            /\ AllNoNul(x.Values.elems)
      [] x.type = "NegotiateProtocolVersion" ->
            ~x.UnrecognizedOptions.isnil /\ AllNoNul(x.UnrecognizedOptions.elems)
      [] x.type = "NotificationResponse" -> NoNul(x.Channel) /\ NoNul(x.Payload)
      [] x.type = "ParameterDescription" -> ~x.Parameters.isnil
      [] x.type = "ParameterStatus" -> NoNul(x.Name) /\ NoNul(x.Value)
      [] x.type = "ReadyForQuery" -> x.TxStatus \in {73, 84, 69}
      [] x.type = "RowDescription" ->
            /\ Allocated(x.Names, SliceLen(x.Names))
            /\ Allocated(x.Tables, SliceLen(x.Names))
            /\ Allocated(x.Columns, SliceLen(x.Names))
            /\ Allocated(x.DataTypes, SliceLen(x.Names))
            /\ Allocated(x.Sizes, SliceLen(x.Names))
            /\ Allocated(x.Modifiers, SliceLen(x.Names))
            /\ Allocated(x.Formats, SliceLen(x.Names))
            /\ AllNoNul(x.Names.elems)
      [] x.type = "Unknown" -> FALSE
      [] OTHER -> TRUE

\* C1: for every variant and every valid value v, Encode followed by Read
\* of the bytes written returns a message equal to v.
C1_EncodeThenRead ==
    (pc = "read" /\ origin = "encoded" /\ ValidValue(sent)) =>
        /\ enc.err = NoErr
        /\ rd.err = NoErr
        /\ rd.msg = sent

\* b is exactly k null-terminated strings.
IsCStrings(b, k) ==
    /\ Cardinality({ i \in 1..Len(b) : b[i] = 0 }) = k
    /\ b # <<>> => b[Len(b)] = 0

\* From position o on, p holds exactly n DataRow columns.
RECURSIVE ColumnsFit(_, _, _)
ColumnsFit(p, o, n) ==
    IF n = 0 THEN o = Len(p) + 1
    ELSE /\ o + 3 <= Len(p)
         /\ LET l == SignedValue(SubSeq(p, o, o + 3))
            IN  \/ l = -1 /\ ColumnsFit(p, o + 4, n - 1)
                \/ l >= 0 /\ o + 3 + l <= Len(p) /\ ColumnsFit(p, o + 4 + l, n - 1)

\* From position o on, p holds (tag, string) pairs and the final 0x00.
RECURSIVE FieldsFit(_, _)
FieldsFit(p, o) ==
    /\ o <= Len(p)
    /\ IF p[o] = 0 THEN o = Len(p)
       ELSE /\ \E z \in (o + 1)..Len(p) : p[z] = 0
            /\ FieldsFit(p, 1 + CHOOSE z \in (o + 1)..Len(p) :
                                    p[z] = 0 /\ \A y \in (o + 1)..(z - 1) : p[y] # 0)

\* From position o on, p holds exactly n RowDescription fields: a string
\* and eighteen bytes of fixed-width values each.
RECURSIVE RowFieldsFit(_, _, _)
RowFieldsFit(p, o, n) ==
    IF n = 0 THEN o = Len(p) + 1
    ELSE /\ \E z \in o..Len(p) : p[z] = 0
         /\ LET z == CHOOSE z \in o..Len(p) : p[z] = 0 /\ \A y \in o..(z - 1) : p[y] # 0
            IN  z + 18 <= Len(p) /\ RowFieldsFit(p, z + 19, n - 1)

\* The body of an AuthenticationSASL message: non-empty mechanism names,
\* each null-terminated, and one more 0x00 after the last.
IsMechanismList(b) ==
    /\ b # <<>>
    /\ b[Len(b)] = 0
    /\ Len(b) > 1 => (b[1] # 0 /\ b[Len(b) - 1] = 0)
    /\ \A i \in 1..(Len(b) - 2) : ~(b[i] = 0 /\ b[i + 1] = 0)

ValidAuthPayload(k, body) ==
    CASE k \in {authKindOk, authKindKerberosV5, authKindCleartextPassword, authKindGSS,
                authKindSSPI} -> body = <<>>
      [] k = authKindMD5Password -> Len(body) = 4
      [] k \in {authKindGSSContinue, authKindSASLContinue, authKindSASLFinal} -> TRUE
      [] k = authKindSASL -> IsMechanismList(body)
      [] OTHER -> FALSE

\* The payload shapes of the wire format, kind by kind.
ValidPayload(kind, p) ==
    CASE kind = msgKindAuthentication ->
            Len(p) >= 4 /\ ValidAuthPayload(SignedValue(Take(p, 4)), Drop(p, 4))
      [] kind = msgKindKeyData -> Len(p) >= 4 + MinSecretKey /\ Len(p) <= 4 + MaxSecretKey
      [] kind = msgKindCommandComplete -> IsCStrings(p, 1)
      [] kind = msgKindCopyData -> TRUE
      [] kind \in {msgKindCopyInResponse, msgKindCopyOutResponse, msgKindCopyBothResponse} ->
            /\ Len(p) >= 3
            /\ SignedValue(SubSeq(p, 2, 3)) >= 0
            /\ Len(p) = 3 + 2 * SignedValue(SubSeq(p, 2, 3))
      [] kind = msgKindDataRow ->
            /\ Len(p) >= 2
            /\ SignedValue(Take(p, 2)) >= 0
            /\ ColumnsFit(p, 3, SignedValue(Take(p, 2)))
      [] kind \in {msgKindErrorResponse, msgKindNoticeResponse} -> FieldsFit(p, 1)
      [] kind = msgKindFunctionCallResponse ->
            /\ Len(p) >= 4
            /\ \/ SignedValue(Take(p, 4)) = -1 /\ Len(p) = 4
               \/ SignedValue(Take(p, 4)) >= 0 /\ Len(p) - 4 = SignedValue(Take(p, 4))
      [] kind = msgKindNegotiateProtocolVersion ->
            /\ Len(p) >= 8
            /\ SignedValue(SubSeq(p, 5, 8)) >= 0
            /\ IsCStrings(Drop(p, 8), SignedValue(SubSeq(p, 5, 8)))
      [] kind = msgKindNotificationResponse -> Len(p) >= 4 /\ IsCStrings(Drop(p, 4), 2)
      [] kind = msgKindParameterDescription ->
            /\ Len(p) >= 2
            /\ SignedValue(Take(p, 2)) >= 0
            /\ Len(p) - 2 = 4 * SignedValue(Take(p, 2))
      [] kind = msgKindParameterStatus -> IsCStrings(p, 2)
      [] kind = msgKindReadyForQuery -> Len(p) = 1 /\ p[1] \in {73, 84, 69}
      [] kind = msgKindRowDescription ->
            /\ Len(p) >= 2
            /\ SignedValue(Take(p, 2)) >= 0
            /\ RowFieldsFit(p, 3, SignedValue(Take(p, 2)))
      [] kind \in KnownKinds -> p = <<>>
      [] OTHER -> FALSE

\* in is exactly one envelope whose payload has the shape of its kind.
ValidEncoding(in) ==
    /\ Len(in) >= 5
    /\ DeclaredLength(in) = Len(in) - 1
    /\ ValidPayload(in[1], Drop(in, 5))

\* C2: for every byte sequence that is a valid encoding of a message, Read
\* followed by Encode of the message read writes exactly the same bytes.
C2_ReadThenEncode ==
    (HasRead /\ ValidEncoding(input)) =>
        /\ rd.err = NoErr
        /\ pc = "reencoded" => (renc.err = NoErr /\ renc.bytes = input)

\* C6: Read answers an envelope whose length field is below 4 (negative
\* values included) with an error value, never handing a negative size to
\* the payload allocation.
C6_ShortLengthIsError ==
    (pc = "read" /\ Len(input) >= 5 /\ DeclaredLength(input) < 4) =>
        /\ rd.err \notin {NoErr, Panic}
        /\ rd.msg = NoMsg

\* in starts with a whole envelope: five header bytes and the L-4 payload
\* bytes the header announces.
Complete(in) ==
    /\ Len(in) >= 5
    /\ DeclaredLength(in) >= 4
    /\ Len(in) - 5 >= DeclaredLength(in) - 4

\* The payload of the envelope at the start of in.
Payload(in) == SubSeq(in, 6, DeclaredLength(in) + 1)

\* The variant each Authentication sub-kind stands for.
AuthVariant(k) ==
    CASE k = 0 -> "AuthenticationOk"
      [] k = 2 -> "AuthenticationKerberosV5"
      [] k = 3 -> "AuthenticationCleartextPassword"
      [] k = 5 -> "AuthenticationMD5Password"
      [] k = 7 -> "AuthenticationGSS"
      [] k = 8 -> "AuthenticationGSSContinue"
      [] k = 9 -> "AuthenticationSSPI"
      [] k = 10 -> "AuthenticationSASL"
      [] k = 11 -> "AuthenticationSASLContinue"
      [] k = 12 -> "AuthenticationSASLFinal"
      [] OTHER -> "none"

\* C11: an Authentication payload shorter than 4 bytes fails with
\* ErrValueUnderflow; otherwise its first 4 bytes are the signed sub-kind
\* and each of 0, 2, 3, 5, 7, 8, 9, 10, 11, 12 gives its own variant decoded
\* from the bytes that follow: the markers succeed, sub-kind 5 followed by
\* 4 bytes gives MD5Password with those bytes as salt, and 8, 11, 12 carry
\* the bytes that follow as their data.
C11_AuthenticationDispatch ==
    (HasRead /\ Complete(input) /\ input[1] = msgKindAuthentication) =>
        IF Len(Payload(input)) < 4
        THEN rd.err = ErrValueUnderflow /\ rd.msg = NoMsg
        ELSE LET k == SignedValue(Take(Payload(input), 4))
                 body == Drop(Payload(input), 4)
             IN  /\ (AuthVariant(k) # "none" /\ rd.err = NoErr) =>
                        rd.msg.type = AuthVariant(k)
                 /\ (k \in {0, 2, 3, 7, 9} /\ body = <<>>) =>
                        (rd.err = NoErr /\ rd.msg = [type |-> AuthVariant(k)])
                 /\ (k = 5 /\ Len(body) >= 4) =>
                        (rd.err = NoErr /\ rd.msg.Salt = Take(body, 4))
                 /\ k \in {8, 11, 12} =>
                        (rd.err = NoErr /\ rd.msg.Data = MakeSlice(body))

C11_Witness ==
    /\ pc = "read"
    /\ input = << 82, 0, 0, 0, 12, 0, 0, 0, 5, 1, 255, 0, 1 >>
    /\ rd.err = NoErr
    /\ rd.msg = [type |-> "AuthenticationMD5Password", Salt |-> << 1, 255, 0, 1 >>]

\* The envelope at the start of in has a kind tag outside the 24 kinds, or
\* is an Authentication envelope whose sub-kind is none of the ten.
Unrecognized(in) ==
    \/ in[1] \notin KnownKinds
    \/ /\ in[1] = msgKindAuthentication
       /\ Len(Payload(in)) >= 4
       /\ AuthVariant(SignedValue(Take(Payload(in), 4))) = "none"

C13_ReadOfUnknownFails ==
    (pc = "read" /\ Complete(input) /\ Unrecognized(input)) =>
        /\ rd.err = ErrInvalidValue
        /\ rd.msg = NoMsg
        /\ stream = Drop(input, DeclaredLength(input) + 1)

C13_Witness ==
    /\ pc = "read"
    /\ input = << 0, 0, 0, 0, 4 >>
    /\ rd.err = ErrInvalidValue
    /\ rd.msg = NoMsg
    /\ stream = <<>>

\* C14: Encode of an Unknown value returns ErrInvalidValue and writes no
\* byte to the stream.
C14_UnknownEncodeFails ==
    (pc = "ready" /\ origin = "encoded" /\ sent.type = "Unknown") =>
        /\ enc.err = ErrInvalidValue
        /\ enc.bytes = <<>>
        /\ stream = <<>>

C14_Witness ==
    /\ pc = "ready"
    /\ origin = "encoded"
    /\ sent = [type |-> "Unknown"]
    /\ enc.err = ErrInvalidValue
    /\ stream = <<>>

\* C15: decoding BackendKeyData fails with ErrValueOverflow when more than
\* 256 bytes follow the 4-byte process ID; 4 to 256 bytes are accepted and
\* returned unchanged as the secret key, together with the process ID.
C15_SecretKeyLimit ==
    (HasRead /\ Complete(input) /\ input[1] = msgKindKeyData /\ Len(Payload(input)) >= 4) =>
        LET key == Drop(Payload(input), 4)
        IN  /\ Len(key) > 256 => (rd.err = ErrValueOverflow /\ rd.msg = NoMsg)
            /\ (Len(key) >= 4 /\ Len(key) <= 256) =>
                   /\ rd.err = NoErr
                   /\ rd.msg = [type |-> "BackendKeyData",
                                ProcessID |-> SignedValue(Take(Payload(input), 4)),
                                SecretKey |-> MakeSlice(key)]

C15_Witness ==
    /\ pc = "read"
    /\ Complete(input)
    /\ input[1] = msgKindKeyData
    /\ Len(Payload(input)) = 4 + 257
    /\ rd.err = ErrValueOverflow
    /\ rd.msg = NoMsg

\* Among the (tag, string) pairs that start at position o of p, one has a
\* tag outside the field tags.
RECURSIVE HasForeignTag(_, _)
HasForeignTag(p, o) ==
    /\ o <= Len(p)
    /\ p[o] # 0
    /\ \/ p[o] \notin FieldTags
       \/ /\ \E z \in (o + 1)..Len(p) : p[z] = 0
          /\ HasForeignTag(p, 1 + CHOOSE z \in (o + 1)..Len(p) :
                                      p[z] = 0 /\ \A y \in (o + 1)..(z - 1) : p[y] # 0)

\* C16: an ErrorResponse or NoticeResponse payload of (tag, string) pairs
\* and a final 0x00 in which some tag is outside the closed set of field
\* tags fails to decode with ErrInvalidValue.
C16_ForeignFieldTagFails ==
    (HasRead /\ Complete(input) /\ input[1] \in {msgKindErrorResponse, msgKindNoticeResponse}
        /\ FieldsFit(Payload(input), 1) /\ HasForeignTag(Payload(input), 1)) =>
        (rd.err = ErrInvalidValue /\ rd.msg = NoMsg)

\* C17: decoding ReadyForQuery fails with ErrValueUnderflow on an empty
\* payload and with ErrInvalidValue when the first byte is not 'I', 'T' or
\* 'E'; otherwise that byte is the status.
C17_TxStatusValidated ==
    (HasRead /\ Complete(input) /\ input[1] = msgKindReadyForQuery) =>
        IF Payload(input) = <<>> THEN rd.err = ErrValueUnderflow
        ELSE IF Payload(input)[1] \in {73, 84, 69}
        THEN rd.err = NoErr /\ rd.msg.TxStatus = Payload(input)[1]
        ELSE rd.err = ErrInvalidValue /\ rd.msg = NoMsg

\* The position of the first 0x00 of p at or after o, or 0 without one.
NameEnd(p, o) ==
    IF \E z \in o..Len(p) : p[z] = 0
    THEN CHOOSE z \in o..Len(p) : p[z] = 0 /\ \A y \in o..(z - 1) : p[y] # 0
    ELSE 0

\* The position in p after k whole RowDescription fields (a name and 18
\* bytes each) that start at o, or 0 when p does not hold them.
RECURSIVE AfterRowFields(_, _, _)
AfterRowFields(p, o, k) ==
    IF k = 0 THEN o
    ELSE IF NameEnd(p, o) = 0 \/ NameEnd(p, o) + 18 > Len(p) THEN 0
    ELSE AfterRowFields(p, NameEnd(p, o) + 19, k - 1)

\* C18 for the three Copy responses: a count of 16-bit column formats
\* follows the format byte.
CopyColumnsCounted(p) ==
    LET count == SignedValue(SubSeq(p, 2, 3))
    IN  /\ (count > 0 /\ Len(p) - 3 < 2 * count) =>
               (rd.err = ErrValueUnderflow /\ rd.msg = NoMsg)
        /\ rd.err = NoErr =>
               /\ SliceLen(rd.msg.Columns) = count
               /\ \A i \in 1..count :
                      rd.msg.Columns.elems[i] = SignedValue(SubSeq(p, 2 + 2 * i, 3 + 2 * i))

\* C18 for ParameterDescription: a count of 32-bit type ids.
ParametersCounted(p) ==
    LET count == SignedValue(Take(p, 2))
    IN  /\ (count > 0 /\ Len(p) - 2 < 4 * count) =>
               (rd.err = ErrValueUnderflow /\ rd.msg = NoMsg)
        /\ rd.err = NoErr =>
               /\ SliceLen(rd.msg.Parameters) = count
               /\ \A i \in 1..count :
                      rd.msg.Parameters.elems[i] =
                          SignedValue(SubSeq(p, 4 * i - 1, 4 * i + 2))

\* C18 for RowDescription: a count of fields, each a name and 18 bytes.
RowFieldsCounted(p) ==
    LET count == SignedValue(Take(p, 2))
    IN  /\ (count > 0 /\ AfterRowFields(p, 3, count) = 0) =>
               (rd.err = ErrValueUnderflow /\ rd.msg = NoMsg)
        /\ rd.err = NoErr =>
               /\ \A f \in {"Names", "Tables", "Columns", "DataTypes", "Sizes", "Modifiers",
                            "Formats"} : SliceLen(rd.msg[f]) = count
               /\ \A i \in 1..count :
                      LET o == AfterRowFields(p, 3, i - 1)
                          z == NameEnd(p, o)
                      IN  /\ rd.msg.Names.elems[i] = SubSeq(p, o, z - 1)
                          /\ rd.msg.Tables.elems[i] = SignedValue(SubSeq(p, z + 1, z + 4))
                          /\ rd.msg.Columns.elems[i] = SignedValue(SubSeq(p, z + 5, z + 6))
                          /\ rd.msg.Formats.elems[i] = SignedValue(SubSeq(p, z + 17, z + 18))

\* C18: when a counted-array payload holds fewer elements than its count
\* prefix declares, the decode fails with ErrValueUnderflow; when it
\* succeeds, the arrays have exactly count elements, in wire order.
C18_CountedArrays ==
    (HasRead /\ Complete(input)) =>
        /\ (input[1] \in {msgKindCopyInResponse, msgKindCopyOutResponse,
                          msgKindCopyBothResponse} /\ Len(Payload(input)) >= 3) =>
               CopyColumnsCounted(Payload(input))
        /\ (input[1] = msgKindParameterDescription /\ Len(Payload(input)) >= 2) =>
               ParametersCounted(Payload(input))
        /\ (input[1] = msgKindRowDescription /\ Len(Payload(input)) >= 2) =>
               RowFieldsCounted(Payload(input))

C18_Witness ==
    /\ pc = "read"
    /\ input = << 116, 0, 0, 0, 9, 0, 1, 0, 0, 1 >>
    /\ rd.err = ErrValueUnderflow
    /\ rd.msg = NoMsg

ClosedSet(fn) ==
    CASE fn = "ParseKind"     -> KnownKinds
      [] fn = "ParseAuthKind" -> { 0, 2, 3, 5, 7, 8, 9, 10, 11, 12 }
      [] fn = "ParseField"    -> FieldTags
      [] fn = "ParseFormat"   -> { 0, 1 }
      [] fn = "ParseTxStatus" -> { 73, 84, 69 }

\* C20: a validator call yields no error when its argument is in the closed set
\* of its type and ErrInvalidValue otherwise, and the closed sets have 24, 10,
\* 18, 2 and 3 members.
C20_ValidatorsAcceptClosedSets ==
    /\ Cardinality(KnownKinds) = 24
    /\ Cardinality(FieldTags) = 18
    /\ pc = "parsed" =>
          /\ parsed.fn \in Validators
          /\ parsed.out = parsed.arg
          /\ parsed.err = IF parsed.arg \in ClosedSet(parsed.fn) THEN NoErr
                                                                   ELSE ErrInvalidValue

C20_Witness ==
    /\ pc = "parsed"
    /\ parsed.fn = "ParseField"
    /\ parsed.arg = 122
    /\ parsed.err = ErrInvalidValue

\* The wire table: kind tag and the variant it frames.
WireTable ==
    { << 82, "Authentication" >>, << 75, "BackendKeyData" >>, << 50, "BindComplete" >>,
      << 51, "CloseComplete" >>, << 67, "CommandComplete" >>, << 100, "CopyData" >>,
      << 99, "CopyDone" >>, << 71, "CopyInResponse" >>, << 72, "CopyOutResponse" >>,
      << 87, "CopyBothResponse" >>, << 68, "DataRow" >>, << 73, "EmptyQueryResponse" >>,
      << 69, "ErrorResponse" >>, << 86, "FunctionCallResponse" >>,
      << 118, "NegotiateProtocolVersion" >>, << 110, "NoData" >>,
      << 78, "NoticeResponse" >>, << 65, "NotificationResponse" >>,
      << 116, "ParameterDescription" >>, << 83, "ParameterStatus" >>,
      << 49, "ParseComplete" >>, << 115, "PortalSuspended" >>, << 90, "ReadyForQuery" >>,
      << 84, "RowDescription" >> }

\* No tag and no variant occurs in two rows of the wire table.
WireTableOneToOne ==
    \A r1 \in WireTable : \A r2 \in WireTable : (r1[1] = r2[1] \/ r1[2] = r2[2]) => r1 = r2

\* The row of the wire table a value belongs to.
WireVariant(x) == IF x.type \in AuthTypes THEN "Authentication" ELSE x.type

\* C21: a message Read decodes is of the variant the wire table gives for the
\* kind tag of its envelope, every Encode that succeeds writes the tag the table
\* gives for its variant, and the table is one-to-one in both directions.
C21_TagVariantBijection ==
    /\ WireTableOneToOne
    /\ (HasRead /\ rd.err = NoErr) => << input[1], WireVariant(rd.msg) >> \in WireTable
    /\ (origin = "encoded" /\ enc.err = NoErr) =>
            /\ enc.kind = enc.bytes[1]
            /\ << enc.bytes[1], WireVariant(sent) >> \in WireTable

\* A CloseComplete value was encoded and read back.
C21_Witness ==
    /\ pc = "read"
    /\ origin = "encoded"
    /\ sent.type = "CloseComplete"
    /\ enc.bytes[1] = 51
    /\ rd.err = NoErr
    /\ rd.msg.type = "CloseComplete"

\* The number of bytes of b equal to c.
RECURSIVE CountByte(_, _)
CountByte(b, c) ==
    IF b = <<>> THEN 0 ELSE (IF Head(b) = c THEN 1 ELSE 0) + CountByte(Tail(b), c)

\* C22: a NegotiateProtocolVersion payload that declares more options than it
\* holds null-terminated strings fails to decode with ErrValueUnderflow.
C22_MissingOptionsUnderflow ==
    (/\ HasRead
     /\ Complete(input)
     /\ input[1] = 118
     /\ Len(Payload(input)) >= 8
     /\ SignedValue(SubSeq(Payload(input), 5, 8)) >
            CountByte(SubSeq(Payload(input), 9, Len(Payload(input))), 0))
        => rd.err = ErrValueUnderflow

\* C23: an Authentication envelope of sub-kind 5 decodes without error only
\* when exactly four salt bytes follow the sub-kind.
C23_SaltIsExactlyFourBytes ==
    (/\ HasRead
     /\ Complete(input)
     /\ input[1] = 82
     /\ Len(Payload(input)) >= 4
     /\ SignedValue(SubSeq(Payload(input), 1, 4)) = 5
     /\ Len(Payload(input)) # 8)
        => rd.err \notin { NoErr, Panic }

\* The first column of a DataRow payload p declares a length that is larger
\* than the bytes left after it, or negative and not -1.
FirstColumnOverruns(p) ==
    /\ Len(p) >= 6
    /\ SignedValue(SubSeq(p, 1, 2)) >= 1
    /\ \/ SignedValue(SubSeq(p, 3, 6)) > Len(p) - 6
       \/ SignedValue(SubSeq(p, 3, 6)) < -1

\* The result of a FunctionCallResponse payload p declares a non-negative
\* length larger than the bytes left after it.
ResultOverruns(p) ==
    /\ Len(p) >= 4
    /\ SignedValue(SubSeq(p, 1, 4)) > Len(p) - 4

\* C24: a DataRow column or FunctionCallResponse result whose declared length
\* exceeds the bytes remaining (or, for DataRow, is negative and not -1) makes
\* the decode return ErrValueUnderflow.
C24_OverlongLengthUnderflows ==
    (/\ HasRead
     /\ Complete(input)
     /\ \/ input[1] = 68 /\ FirstColumnOverruns(Payload(input))
        \/ input[1] = 86 /\ ResultOverruns(Payload(input)))
        => rd.err = ErrValueUnderflow

\* The payload p of an envelope of the given kind holds bytes beyond what
\* the shape of the kind requires.
HasTrailingBytes(kind, p) ==
    \/ kind \in { 50, 51, 99, 73, 110, 49, 115 } /\ Len(p) > 0
    \/ kind = 90 /\ Len(p) > 1
    \/ kind = 67 /\ \E i \in 1..(Len(p) - 1) : p[i] = 0

\* C25: a fixed-empty kind with a non-empty payload, a ReadyForQuery payload
\* longer than one byte, and a CommandComplete payload with bytes after its
\* terminator are rejected with an error.
C25_TrailingBytesRejected ==
    (HasRead /\ Complete(input) /\ HasTrailingBytes(input[1], Payload(input)))
        => rd.err \notin { NoErr, Panic }

\* The strings of ms one after the other, each followed by a zero byte.
RECURSIVE Terminated(_)
Terminated(ms) == IF ms = <<>> THEN <<>> ELSE Head(ms) \o << 0 >> \o Terminated(Tail(ms))

\* C26: AuthenticationSASL encodes as sub-kind 10, the mechanisms as
\* null-terminated strings and one final zero byte, and Read of those bytes
\* returns the same mechanism list, empty and not nil when there is none.
C26_SASLTerminatedList ==
    (/\ pc = "read"
     /\ origin = "encoded"
     /\ sent.type = "AuthenticationSASL"
     /\ ~sent.Mechanisms.isnil
     /\ AllNoNul(sent.Mechanisms.elems))
        => /\ enc.err = NoErr
           /\ enc.payload = << 0, 0, 0, 10 >> \o Terminated(sent.Mechanisms.elems) \o << 0 >>
           /\ rd.err = NoErr
           /\ rd.msg = [type |-> "AuthenticationSASL",
                        Mechanisms |-> MakeSlice(sent.Mechanisms.elems)]

\* C27: the bytes xMessage.Encode produces for a declared kind and a payload
\* carry the length len(payload) + 4, and ReadMessage reads them back as the
\* same kind and the same payload.
C27_FramedRoundTrip ==
    (pc = "unframed" /\ framed.kind \in KnownKinds) =>
        /\ SignedValue(SubSeq(framed.bytes, 2, 5)) = Len(framed.data) + 4
        /\ framed.err = NoErr
        /\ framed.rkind = framed.kind
        /\ framed.rdata.elems = framed.data

\* The envelope at the start of in and nothing more has been taken from in,
\* leaving out.
ConsumedEnvelope(in, out) == out = SubSeq(in, DeclaredLength(in) + 2, Len(in))

\* After a Read that met a whole envelope and returned a payload error, the
\* stream holds what followed the envelope.
PayloadErrorConsumesEnvelope ==
    (/\ pc = "read"
     /\ Complete(input)
     /\ rd.err \in { ErrValueUnderflow, ErrValueOverflow, ErrInvalidValue })
        => ConsumedEnvelope(input, stream)

\* A Read that follows a Read of a whole envelope starts at the byte after
\* that envelope, and hands the payload of the envelope it finds there to the
\* decoder.
NextReadStartsAtNextEnvelope ==
    (/\ pc = "read"
     /\ pc' = "read"
     /\ Complete(input))
        => /\ ConsumedEnvelope(input, input')
           /\ Complete(input') => /\ rd'.data = Payload(input')
                                  /\ ConsumedEnvelope(input', stream')

\* C28: Read consumes the whole envelope before it decodes the payload: after
\* a payload error exactly 1+L bytes are gone from the stream, the next Read
\* starts at the kind byte of the next envelope, and successive Reads of a
\* stream of whole envelopes return their results in stream order.
C28_ReadResynchronizes ==
    /\ []PayloadErrorConsumesEnvelope
    /\ [][NextReadStartsAtNextEnvelope]_vars

\* The first of two envelopes failed with ErrValueUnderflow and the stream
\* holds exactly the second.
C28_Witness ==
    /\ pc = "read"
    /\ origin = "envelopes"
    /\ input = << 90, 0, 0, 0, 4, 90, 0, 0, 0, 5, 73 >>
    /\ rd.err = ErrValueUnderflow
    /\ stream = << 90, 0, 0, 0, 5, 73 >>

\* The count prefix of the payload p of a counted kind is negative.
NegativeCount(kind, p) ==
    \/ kind \in { 71, 72, 87 } /\ Len(p) >= 3 /\ SignedValue(SubSeq(p, 2, 3)) < 0
    \/ kind \in { 116, 84, 68 } /\ Len(p) >= 2 /\ SignedValue(SubSeq(p, 1, 2)) < 0
    \/ kind = 118 /\ Len(p) >= 8 /\ SignedValue(SubSeq(p, 5, 8)) < 0

\* C29: a counted payload whose count prefix is negative is answered with an
\* error value, not with a crash.
C29_NegativeCountIsError ==
    (HasRead /\ Complete(input) /\ NegativeCount(input[1], Payload(input)))
        => rd.err \notin { NoErr, Panic }

\* The three writes of a writeMessage call, in order: kind, length, payload.
ThreeWrites(kind, b) == << << kind >>, << 0, 0, 0, Len(b) + 4 >>, b >>

\* The bytes of the first n of the writes ws.
RECURSIVE FirstWrites(_, _)
FirstWrites(ws, n) == IF n = 0 THEN <<>> ELSE FirstWrites(ws, n - 1) \o ws[n]

\* The first n bytes of b, or all of b when it is shorter.
PartOf(b, n) == IF n < Len(b) THEN SubSeq(b, 1, n) ELSE b

\* C30: writeMessage writes kind, length and payload in this order and stops
\* at the first write that fails, returning the error of that write: nothing
\* is written after a failed write, and the error of the stream is never
\* dropped.
C30_WriteStopsAtFirstError ==
    pc = "written" =>
        IF wr.w.failAt = 0
        THEN /\ wr.err = NoErr
             /\ wr.calls = 3
             /\ wr.written = FirstWrites(ThreeWrites(wr.kind, wr.payload), 3)
        ELSE /\ wr.err = wr.w.err
             /\ wr.calls = wr.w.failAt
             /\ wr.written = FirstWrites(ThreeWrites(wr.kind, wr.payload), wr.w.failAt - 1)
                                \o PartOf(ThreeWrites(wr.kind, wr.payload)[wr.w.failAt],
                                          wr.w.partial)

\* The length write failed after the kind had been written: the payload was
\* not written.
C30_Witness ==
    /\ pc = "written"
    /\ wr.w.failAt = 2
    /\ wr.w.partial = 0
    /\ wr.payload = << 255, 0 >>
    /\ wr.err = "short write"
    /\ wr.written = << 82 >>

====
